---- MODULE Spec2Model ----
(***************************************************************************)
(* Time-bounded state reconciliation engine of the PIXEL moderation bot:   *)
(* the punishment store with its expiry loops (scheduler.py) and the       *)
(* moderation handlers that issue and lift punishments (bot.py).           *)
(*                                                                         *)
(* Every handler is an asyncio coroutine.  A coroutine runs without        *)
(* interruption between two awaits, so each action below is one such       *)
(* stretch: the database or platform call that the await completes,        *)
(* followed by the synchronous code up to the next await.  Task slots      *)
(* (Tasks) hold the coroutines in flight with their local variables.       *)
(*                                                                         *)
(* Time is counted in seconds; the clock advances in steps.                *)
(***************************************************************************)
EXTENDS Integers, Sequences, FiniteSets, TLC

----------------------------------------------------------------------------
(* Bounds of the model *)

\* coroutines in flight at the same time
NTasks == 2
\* seconds the clock advances in one step
TickSeconds == 30
\* steps the clock takes
MaxTicks == 1
\* punishment records ever created
MaxPunishments == 2
\* chats known to the bot
NChats == 1
\* members that can be punished
NSubjects == 1
\* longest timed punishment, in clock steps
MaxDuration == 1

\* the clock stops at MaxTime
MaxTime == TickSeconds * MaxTicks

Tasks == 1..NTasks
Chats == 1..NChats
Subjects == 1..NSubjects
Durations == {TickSeconds * k : k \in 1..MaxDuration}
PunishmentIds == 1..MaxPunishments

\* members that can cast ballots
NVoters == 3
\* votes ever created
MaxVotes == 2
\* votes ever created while ballots are cast
MaxBallotedVotes == 1
\* required_votes of a vote, scaled down from the 5 of votemute_command
RequiredVotes == 2
\* seconds the clock advances in one step while votes run
VoteTickSeconds == 300
\* steps the clock takes while votes run
MaxVoteTicks == 1

VoteIds == 1..MaxVotes
MaxVoteTime == VoteTickSeconds * MaxVoteTicks

\* the member who sends /votemute
Creator == NSubjects + 1
\* ordinary members who press the vote buttons
Voters == (NSubjects + 2)..(NSubjects + 1 + NVoters)
\* a member with a moderation rank
Moderator == NSubjects + NVoters + 2

\* expiry_date of a permanent punishment (None in the code)
NoExpiry == -1
\* absent entry of the dedup cache
NoTs == -1

----------------------------------------------------------------------------
(* Program constants, in seconds *)

\* scheduler.py:151  current_time - ts < 60
CacheTTL == 60
\* scheduler.py:203  time_since_processed < 30
DedupWindow == 30
\* votemute_db.py:188  (now - last_change).total_seconds() < 30
BallotCooldown == 30
\* votemute_db.py:288  (datetime.now() - last_created).total_seconds() >= 180
CreateCooldown == 180
\* bot.py:7998  vote_duration=5 minutes, votemute_db.py:124 expires_at
VoteWindow == 300
\* bot.py:8030  votemute_timer(vote_id, 5 * 60)
TimerDelay == 300
\* bot.py:7996  mute_duration=30 * 60
MuteDuration == 1800
\* bot.py:64, bot.py:65
RANK_JUNIOR_MOD == 4
RANK_USER == 5

----------------------------------------------------------------------------
VARIABLES
    now,            \* wall clock
    punishments,    \* moderation_db punishments table: id = index
    chatActive,     \* db chats table: is_active per chat
    restricted,     \* platform: <<chat, user>> pairs that may not post
    banned,         \* platform: <<chat, user>> pairs banned from the chat
    recently,       \* TaskScheduler._recently_processed_mutes: id -> ts
    task,           \* coroutines in flight: op, pc and locals per slot
    scanWins,       \* per punishment: scan CAS calls that returned True
    scanLosses,     \* per punishment: scan CAS calls that returned False
    scanReversals,  \* per punishment: unmute/unban calls issued by scans
    scanNotices,    \* per punishment: release notices issued by scans
    lostActs,       \* per punishment: side effects by a scan whose CAS lost
    votes,          \* votemute_db: every vote created, vote_id = index
    active_votes,   \* votemute_db active_votes: vote_ids whose row is in the table
    vote_results,   \* votemute_db vote_results: ballot rows
    vote_cooldowns, \* votemute_db vote_cooldowns: chat -> last_vote_created_at
    vote_history,   \* votemute_db vote_history: rows of finished votes
    timers,         \* votemute_timer coroutines asleep: vote_id -> wake time
    voteMutes,      \* per vote: mutes finish_votemute applied on the platform
    voteRecords,    \* per vote: punishments finish_votemute recorded
    atThreshold,    \* per vote: the majority when the tally first reached the threshold
    phase,          \* the process: "running", "stopping" (main's finally), "down"
    bcast,          \* send_notification_to_all_chats: position, counters, calls made
    limiter         \* TaskScheduler.chat_semaphore and the coroutines that use it

vars == <<now, punishments, chatActive, restricted, banned, recently, task,
          scanWins, scanLosses, scanReversals, scanNotices, lostActs,
          votes, active_votes, vote_results, vote_cooldowns, vote_history, timers,
          voteMutes, voteRecords, atThreshold, phase, bcast, limiter>>

voteVars == <<votes, active_votes, vote_results, vote_cooldowns, vote_history, timers,
              voteMutes, voteRecords, atThreshold>>

histVars == <<scanWins, scanLosses, scanReversals, scanNotices, lostActs>>

----------------------------------------------------------------------------
(* Punishment store: moderation_db *)

AddPunishment(ps, c, u, k, e) ==
    Append(ps, [chat |-> c, user |-> u, kind |-> k, expiry |-> e, active |-> TRUE])

RECURSIVE ActiveIdsFrom(_, _, _, _)
ActiveIdsFrom(ps, c, k, i) ==
    IF i > Len(ps) THEN <<>>
    ELSE IF ps[i].active /\ ps[i].chat = c /\ ps[i].kind = k
         THEN <<i>> \o ActiveIdsFrom(ps, c, k, i + 1)
         ELSE ActiveIdsFrom(ps, c, k, i + 1)

\* ids of the active punishments of one kind in one chat
GetActivePunishments(ps, c, k) == ActiveIdsFrom(ps, c, k, 1)

\* UPDATE ... SET active = 0 WHERE id = ? AND active = 1; True iff a row changed
DeactivateResult(ps, id) == ps[id].active

DeactivatePunishment(ps, id) == [ps EXCEPT ![id].active = FALSE]

----------------------------------------------------------------------------
(* Task slots *)

IdleTask ==
    [op |-> "none", pc |-> "idle", chat |-> 0, user |-> 0, expiry |-> 0,
     snap |-> <<>>, i |-> 0, won |-> FALSE, tref |-> 0,
     vote |-> 0, ballot |-> "none", result |-> "none",
     existing |-> FALSE, results |-> [yes |-> 0, no |-> 0],
     sent |-> "none", count |-> 0, call |-> "none", sleep |-> 0,
     status |-> "none", done |-> 0]

Idle(t) == task[t].pc = "idle"

\* chats of a broadcast and coroutines that share chat_semaphore
NTargets == 3
NWorkers == 4
\* scheduler.py:27 max_concurrent_chats (10 by default), here 2
MaxConcurrentChats == 2
\* bot.py:11370 asyncio.Semaphore(5)
BroadcastLimit == 5
\* bot.py:11387 max_retries
MaxRetries == 3
\* bot.py:11388 retry_delay
RetryDelay == 1

Targets == 1..NTargets
Workers == 1..NWorkers

\* no broadcast yet: the counters and the semaphore of a call are its locals
BcastIdle ==
    [pc |-> "idle", i |-> 0, attempt |-> 0,
     log |-> [c \in Targets |-> <<>>], waits |-> [c \in Targets |-> <<>>],
     success_count |-> 0, error_count |-> 0, rate_limit_count |-> 0,
     permits |-> BroadcastLimit]

\* TaskScheduler.__init__: Semaphore(max_concurrent_chats), no coroutine yet
LimiterIdle ==
    [value |-> MaxConcurrentChats, worker |-> [w \in Workers |-> "idle"],
     cancelled |-> FALSE]

\* scheduler.running is set and dp.start_polling delivers updates
Accepting == phase = "running"

\* a new coroutine takes the first free slot
FreeSlot(t) == Idle(t) /\ \A s \in Tasks : s < t => ~Idle(s)

At(t, o, p) == task[t].op = o /\ task[t].pc = p

\* the punishment a scan or a deactivation loop is working on
Cur(t) == task[t].snap[task[t].i]

IssuingOps == {"mute_command", "warn_command", "message_handler", "ban_command"}

\* records that coroutines in flight are still going to add
PendingAdds == Cardinality({t \in Tasks : task[t].op \in IssuingOps})

CanIssue == Len(punishments) + PendingAdds < MaxPunishments

\* outcome classes of a platform call: done, "chat not found"/"bad request", other
CallOutcomes == {"ok", "gone", "error"}

DeactivateChatForgotten(c) == chatActive

\* db.deactivate_chat: get_all_chats_for_update no longer lists the chat
DeactivateChat(c) == [chatActive EXCEPT ![c] = FALSE]

----------------------------------------------------------------------------
(* Expiry reconciler, mutes: TaskScheduler.mute_expiry_task *)

\* the cache entries the loop keeps at the start of an iteration
PruneCache(rc, t0) ==
    [id \in PunishmentIds |-> IF rc[id] # NoTs /\ t0 - rc[id] < CacheTTL
                              THEN rc[id] ELSE NoTs]

DedupSkipsAlways(rc, id, tref) == TRUE

DedupSkipsUnknown(rc, id, tref) == rc[id] = NoTs

\* "processed less than 30 seconds ago": the loop skips the mute
DedupSkips(rc, id, tref) == rc[id] # NoTs /\ tref - rc[id] < DedupWindow

MuteExpiredEarly(e, n) == e # NoExpiry

MuteExpiredUnset(e, n) == n - e >= 0

\* mute['expiry_date'] is set and (now - expiry_date).total_seconds() >= 0
MuteExpired(e, n) == e # NoExpiry /\ n - e >= 0

\* index of the first mute from i on that the loop takes to the CAS
RECURSIVE NextMuteCandidate(_, _, _, _, _, _)
NextMuteCandidate(ps, rc, snap, i, tref, n) ==
    IF i > Len(snap) THEN i
    ELSE IF DedupSkips(rc, snap[i], tref) \/ ~MuteExpired(ps[snap[i]].expiry, n)
         THEN NextMuteCandidate(ps, rc, snap, i + 1, tref, n)
         ELSE i

MuteScanOwnsAlways(deactivated) == TRUE

\* "if not deactivated: continue": only the winner of the CAS goes on
MuteScanOwns(deactivated) == deactivated

\* process_chat_mutes returns n to asyncio.gather
MuteScanReturn(t, n) == [task[t] EXCEPT !.pc = "return", !.count = n]

MuteScanResumeAborts(t, j, r) ==
    task' = [task EXCEPT ![t] =
                IF r \in {"gone", "error"} THEN [MuteScanReturn(t, 0) EXCEPT !.sent = r]
                ELSE IF j > Len(task[t].snap)
                THEN [MuteScanReturn(t, Len(task[t].snap)) EXCEPT !.sent = r]
                ELSE [task[t] EXCEPT !.pc = "cas", !.i = j, !.won = FALSE, !.sent = r]]

\* the loop body resumes at index j, or process_chat_mutes returns
\* must_active_count; r is the outcome of the send_message before, if any
MuteScanResume(t, j, r) ==
    task' = [task EXCEPT ![t] =
                IF j > Len(task[t].snap)
                THEN [MuteScanReturn(t, Len(task[t].snap)) EXCEPT !.sent = r]
                ELSE [task[t] EXCEPT !.pc = "cas", !.i = j, !.won = FALSE, !.sent = r]]

\* an iteration prunes the cache, takes current_time and starts
\* process_chat_mutes for a chat row
MuteScanStart(t, c) ==
    /\ Accepting
    /\ FreeSlot(t)
    /\ chatActive[c]
    /\ recently' = PruneCache(recently, now)
    /\ task' = [task EXCEPT ![t] =
                  [IdleTask EXCEPT !.op = "process_chat_mutes", !.pc = "member",
                                   !.chat = c, !.tref = now]]
    /\ UNCHANGED <<phase, bcast, limiter, voteVars, now, punishments, chatActive, restricted, banned, histVars>>

MayModerateAsMember(st) == st \in {"administrator", "creator", "member"}

\* "if bot_member.status not in ['administrator', 'creator']: return 0"
MayModerate(st) == st \in {"administrator", "creator"}

\* get_chat_member: only an administrator or creator bot goes on
MuteScanMember(t) ==
    /\ At(t, "process_chat_mutes", "member")
    /\ \E st \in {"administrator", "member", "gone", "error"} :
          /\ task' = [task EXCEPT ![t] =
                        IF MayModerate(st)
                        THEN [task[t] EXCEPT !.pc = "fetch", !.call = "ok", !.status = st]
                        ELSE [MuteScanReturn(t, 0) EXCEPT
                                 !.call = IF st = "member" THEN "ok" ELSE st,
                                 !.status = st]]
          /\ chatActive' = IF st = "gone" THEN DeactivateChat(task[t].chat)
                           ELSE chatActive
    /\ UNCHANGED <<phase, bcast, limiter, voteVars, now, punishments, restricted, banned, recently, histVars>>

\* get_active_punishments, then the loop up to the first CAS
MuteScanFetch(t) ==
    /\ At(t, "process_chat_mutes", "fetch")
    /\ LET snap == GetActivePunishments(punishments, task[t].chat, "mute")
           j == NextMuteCandidate(punishments, recently, snap, 1, task[t].tref, now)
       IN task' = [task EXCEPT ![t] =
                     IF j > Len(snap) THEN [MuteScanReturn(t, Len(snap)) EXCEPT !.snap = snap]
                     ELSE [task[t] EXCEPT !.pc = "cas", !.snap = snap, !.i = j]]
    /\ UNCHANGED <<phase, bcast, limiter, voteVars, now, punishments, chatActive, restricted, banned, recently, histVars>>

\* deactivate_punishment: the winner records the id and goes on to the
\* platform call, a loser records the id and takes the next mute
MuteScanCAS(t) ==
    /\ At(t, "process_chat_mutes", "cas")
    /\ LET id == Cur(t)
           deactivated == DeactivateResult(punishments, id)
           rc == [recently EXCEPT ![id] = task[t].tref]
       IN /\ punishments' = DeactivatePunishment(punishments, id)
          /\ recently' = rc
          /\ scanWins' = [scanWins EXCEPT ![id] = @ + (IF deactivated THEN 1 ELSE 0)]
          /\ scanLosses' = [scanLosses EXCEPT ![id] = @ + (IF deactivated THEN 0 ELSE 1)]
          /\ IF MuteScanOwns(deactivated)
             THEN task' = [task EXCEPT ![t] =
                             [task[t] EXCEPT !.pc = "unrestrict", !.won = deactivated]]
             ELSE MuteScanResume(t,
                     NextMuteCandidate(punishments', rc, task[t].snap, task[t].i + 1,
                                       task[t].tref, now), "none")
    /\ UNCHANGED <<phase, bcast, limiter, voteVars, now, chatActive, restricted, banned,
                   scanReversals, scanNotices, lostActs>>

\* restrict_chat_member with all send permissions; a failure is logged
MuteScanUnrestrict(t) ==
    /\ At(t, "process_chat_mutes", "unrestrict")
    /\ \E r \in CallOutcomes :
          /\ restricted' = IF r = "ok"
                           THEN restricted \ {<<task[t].chat, punishments[Cur(t)].user>>}
                           ELSE restricted
          /\ chatActive' = IF r = "gone" THEN DeactivateChat(task[t].chat) ELSE chatActive
          /\ task' = [task EXCEPT ![t] = [task[t] EXCEPT !.pc = "notify", !.call = r]]
    /\ scanReversals' = [scanReversals EXCEPT ![Cur(t)] = @ + 1]
    /\ lostActs' = [lostActs EXCEPT ![Cur(t)] = @ + (IF task[t].won THEN 0 ELSE 1)]
    /\ UNCHANGED <<phase, bcast, limiter, voteVars, now, punishments, banned, recently, scanWins, scanLosses,
                   scanNotices>>

\* send_message with the release notice; a failure is logged; next mute
MuteScanNotify(t) ==
    /\ At(t, "process_chat_mutes", "notify")
    /\ \E r \in CallOutcomes :
          /\ chatActive' = IF r = "gone" THEN DeactivateChat(task[t].chat) ELSE chatActive
          /\ MuteScanResume(t,
                NextMuteCandidate(punishments, recently, task[t].snap, task[t].i + 1,
                                  task[t].tref, now), r)
    /\ scanNotices' = [scanNotices EXCEPT ![Cur(t)] = @ + 1]
    /\ lostActs' = [lostActs EXCEPT ![Cur(t)] = @ + (IF task[t].won THEN 0 ELSE 1)]
    /\ UNCHANGED <<phase, bcast, limiter, voteVars, now, punishments, restricted, banned, recently, scanWins,
                   scanLosses, scanReversals>>

\* asyncio.gather takes the result: a result above 0 sets has_active_mutes,
\* which makes the loop sleep 10 seconds instead of 60
MuteScanGather(t) ==
    /\ At(t, "process_chat_mutes", "return")
    /\ task' = [task EXCEPT ![t] = IdleTask]
    /\ UNCHANGED <<phase, bcast, limiter, voteVars, now, punishments, chatActive, restricted, banned, recently, histVars>>

----------------------------------------------------------------------------
(* Expiry reconciler, bans: TaskScheduler.ban_expiry_task *)

\* ban['expiry_date'] is set and now >= expiry_date
BanExpired(e, n) == e # NoExpiry /\ n >= e

\* index of the first ban from i on that the loop takes to the CAS
RECURSIVE NextBanCandidate(_, _, _, _)
NextBanCandidate(ps, snap, i, n) ==
    IF i > Len(snap) THEN i
    ELSE IF ~BanExpired(ps[snap[i]].expiry, n)
         THEN NextBanCandidate(ps, snap, i + 1, n)
         ELSE i

BanScanOwnsAlways(deactivated) == TRUE

\* "if not deactivated: continue"
BanScanOwns(deactivated) == deactivated

\* process_chat_bans returns n to asyncio.gather
BanScanReturn(t, n) == [task[t] EXCEPT !.pc = "return", !.count = n]

\* the loop body resumes at index j, or process_chat_bans returns ban_count;
\* r is the outcome of the send_message before, if any
BanScanAt(t, j, r) ==
    IF j > Len(task[t].snap)
    THEN [BanScanReturn(t, Len(task[t].snap)) EXCEPT !.sent = r]
    ELSE [task[t] EXCEPT !.pc = "cas", !.i = j, !.won = FALSE, !.sent = r]

BanScanResume(t, j, r) == task' = [task EXCEPT ![t] = BanScanAt(t, j, r)]

\* an iteration starts process_chat_bans for a chat row
BanScanStart(t, c) ==
    /\ Accepting
    /\ FreeSlot(t)
    /\ chatActive[c]
    /\ task' = [task EXCEPT ![t] =
                  [IdleTask EXCEPT !.op = "process_chat_bans", !.pc = "fetch", !.chat = c]]
    /\ UNCHANGED <<phase, bcast, limiter, voteVars, now, punishments, chatActive, restricted, banned, recently, histVars>>

\* get_active_punishments, then the loop up to the first CAS
BanScanFetch(t) ==
    /\ At(t, "process_chat_bans", "fetch")
    /\ LET snap == GetActivePunishments(punishments, task[t].chat, "ban")
           j == NextBanCandidate(punishments, snap, 1, now)
       IN task' = [task EXCEPT ![t] =
                     IF j > Len(snap) THEN [BanScanReturn(t, Len(snap)) EXCEPT !.snap = snap]
                     ELSE [task[t] EXCEPT !.pc = "cas", !.snap = snap, !.i = j]]
    /\ UNCHANGED <<phase, bcast, limiter, voteVars, now, punishments, chatActive, restricted, banned, recently, histVars>>

\* deactivate_punishment: the winner goes on to unban, a loser takes the next ban
BanScanCAS(t) ==
    /\ At(t, "process_chat_bans", "cas")
    /\ LET id == Cur(t)
           deactivated == DeactivateResult(punishments, id)
       IN /\ punishments' = DeactivatePunishment(punishments, id)
          /\ scanWins' = [scanWins EXCEPT ![id] = @ + (IF deactivated THEN 1 ELSE 0)]
          /\ scanLosses' = [scanLosses EXCEPT ![id] = @ + (IF deactivated THEN 0 ELSE 1)]
          /\ IF BanScanOwns(deactivated)
             THEN task' = [task EXCEPT ![t] =
                             [task[t] EXCEPT !.pc = "unban", !.won = deactivated]]
             ELSE BanScanResume(t,
                     NextBanCandidate(punishments', task[t].snap, task[t].i + 1, now),
                     "none")
    /\ UNCHANGED <<phase, bcast, limiter, voteVars, now, chatActive, restricted, banned, recently,
                   scanReversals, scanNotices, lostActs>>

\* unban_chat_member; a failure is logged
BanScanUnban(t) ==
    /\ At(t, "process_chat_bans", "unban")
    /\ \E r \in CallOutcomes :
          /\ banned' = IF r = "ok"
                       THEN banned \ {<<task[t].chat, punishments[Cur(t)].user>>}
                       ELSE banned
          /\ chatActive' = IF r = "gone" THEN DeactivateChat(task[t].chat) ELSE chatActive
          /\ task' = [task EXCEPT ![t] = [task[t] EXCEPT !.pc = "notify", !.call = r]]
    /\ scanReversals' = [scanReversals EXCEPT ![Cur(t)] = @ + 1]
    /\ lostActs' = [lostActs EXCEPT ![Cur(t)] = @ + (IF task[t].won THEN 0 ELSE 1)]
    /\ UNCHANGED <<phase, bcast, limiter, voteVars, now, punishments, restricted, recently, scanWins, scanLosses,
                   scanNotices>>

\* send_message with the release notice to the chat; a failure is logged
BanScanNotify(t) ==
    /\ At(t, "process_chat_bans", "notify")
    /\ \E r \in CallOutcomes :
          /\ chatActive' = IF r = "gone" THEN DeactivateChat(task[t].chat) ELSE chatActive
          /\ task' = [task EXCEPT ![t] = [task[t] EXCEPT !.pc = "dm", !.sent = r]]
    /\ scanNotices' = [scanNotices EXCEPT ![Cur(t)] = @ + 1]
    /\ lostActs' = [lostActs EXCEPT ![Cur(t)] = @ + (IF task[t].won THEN 0 ELSE 1)]
    /\ UNCHANGED <<phase, bcast, limiter, voteVars, now, punishments, restricted, banned, recently, scanWins,
                   scanLosses, scanReversals>>

\* get_chat and the private message to the member; a failure falls back to
\* a default title or is logged; next ban
BanScanDm(t) ==
    /\ At(t, "process_chat_bans", "dm")
    /\ \E r \in CallOutcomes :
          task' = [task EXCEPT ![t] =
                      [BanScanAt(t, NextBanCandidate(punishments, task[t].snap,
                                                     task[t].i + 1, now),
                                 task[t].sent) EXCEPT !.call = r]]
    /\ UNCHANGED <<phase, bcast, limiter, voteVars, now, punishments, chatActive, restricted, banned, recently, histVars>>

\* asyncio.gather takes the result: a result above 0 sets has_active_bans
BanScanGather(t) ==
    /\ At(t, "process_chat_bans", "return")
    /\ task' = [task EXCEPT ![t] = IdleTask]
    /\ UNCHANGED <<phase, bcast, limiter, voteVars, now, punishments, chatActive, restricted, banned, recently, histVars>>

----------------------------------------------------------------------------
(* Moderation handlers of bot.py that issue punishments *)

\* a handler's platform call either goes through or raises
CmdOutcomes == {"ok", "error"}

\* index of the first punishment of member u in the list, from i on
RECURSIVE NextOfSubject(_, _, _, _)
NextOfSubject(ps, snap, i, u) ==
    IF i > Len(snap) THEN i
    ELSE IF ps[snap[i]].user = u THEN i
         ELSE NextOfSubject(ps, snap, i + 1, u)

AnyOfSubject(ps, snap, u) == \E i \in 1..Len(snap) : ps[snap[i]].user = u

\* the handler has passed its argument and rank checks and computed the expiry
HandlerStart(t, o, p, c, u, e) ==
    /\ Accepting
    /\ FreeSlot(t)
    /\ task' = [task EXCEPT ![t] =
                  [IdleTask EXCEPT !.op = o, !.pc = p, !.chat = c, !.user = u,
                                   !.expiry = e]]
    /\ UNCHANGED <<phase, bcast, limiter, voteVars, now, punishments, chatActive, restricted, banned, recently, histVars>>

RestrictStepGoesOn(t, o, nextPc) ==
    /\ At(t, o, "restrict")
    /\ \E r \in CmdOutcomes :
          /\ restricted' = IF r = "ok"
                           THEN restricted \cup {<<task[t].chat, task[t].user>>}
                           ELSE restricted
          /\ task' = [task EXCEPT ![t] = [task[t] EXCEPT !.pc = nextPc]]
    /\ UNCHANGED <<phase, bcast, limiter, voteVars, now, punishments, chatActive, banned, recently, histVars>>

\* restrict_chat_member without send permissions: on failure the handler ends
RestrictStep(t, o, nextPc) ==
    /\ At(t, o, "restrict")
    /\ \E r \in CmdOutcomes :
          /\ restricted' = IF r = "ok"
                           THEN restricted \cup {<<task[t].chat, task[t].user>>}
                           ELSE restricted
          /\ task' = [task EXCEPT ![t] =
                        IF r = "ok" THEN [task[t] EXCEPT !.pc = nextPc] ELSE IdleTask]
    /\ UNCHANGED <<phase, bcast, limiter, voteVars, now, punishments, chatActive, banned, recently, histVars>>

\* get_active_punishments, then the loop up to the first deactivation
FetchStep(t, o, k, donePc) ==
    /\ At(t, o, "fetch")
    /\ LET snap == GetActivePunishments(punishments, task[t].chat, k)
           j == NextOfSubject(punishments, snap, 1, task[t].user)
       IN task' = [task EXCEPT ![t] =
                     IF j <= Len(snap)
                     THEN [task[t] EXCEPT !.pc = "deact", !.snap = snap, !.i = j]
                     ELSE IF donePc = "idle" THEN IdleTask
                     ELSE [task[t] EXCEPT !.pc = donePc, !.snap = snap]]
    /\ UNCHANGED <<phase, bcast, limiter, voteVars, now, punishments, chatActive, restricted, banned, recently, histVars>>

\* deactivate_punishment of the member's next listed punishment
DeactStep(t, o, donePc) ==
    /\ At(t, o, "deact")
    /\ punishments' = DeactivatePunishment(punishments, Cur(t))
    /\ LET j == NextOfSubject(punishments, task[t].snap, task[t].i + 1, task[t].user)
       IN task' = [task EXCEPT ![t] =
                     IF j <= Len(task[t].snap) THEN [task[t] EXCEPT !.i = j]
                     ELSE IF donePc = "idle" THEN IdleTask
                     ELSE [task[t] EXCEPT !.pc = donePc]]
    /\ UNCHANGED <<phase, bcast, limiter, voteVars, now, chatActive, restricted, banned, recently, histVars>>

MuteCommandStoreReuse(ps, c, u, e) ==
    IF \E id \in 1..Len(ps) : ps[id].chat = c /\ ps[id].user = u /\ ps[id].kind = "mute"
    THEN LET id == CHOOSE id \in 1..Len(ps) :
                      ps[id].chat = c /\ ps[id].user = u /\ ps[id].kind = "mute"
         IN [ps EXCEPT ![id].active = TRUE, ![id].expiry = e]
    ELSE AddPunishment(ps, c, u, "mute", e)

\* mute_command records the new mute
MuteCommandStore(ps, c, u, e) == AddPunishment(ps, c, u, "mute", e)

\* add_punishment ends the handler
AddStep(t, o, ps) ==
    /\ At(t, o, "add")
    /\ punishments' = ps
    /\ task' = [task EXCEPT ![t] = IdleTask]
    /\ UNCHANGED <<phase, bcast, limiter, voteVars, now, chatActive, restricted, banned, recently, histVars>>

(* /mute: mute_command *)
MuteCommandStart(t, c, u, d) ==
    CanIssue /\ HandlerStart(t, "mute_command", "restrict", c, u, now + d)

MuteCommandRestrict(t) == RestrictStep(t, "mute_command", "fetch")

MuteCommandFetch(t) == FetchStep(t, "mute_command", "mute", "add")

MuteCommandDeactivate(t) == DeactStep(t, "mute_command", "add")

MuteCommandAdd(t) ==
    AddStep(t, "mute_command",
            MuteCommandStore(punishments, task[t].chat, task[t].user, task[t].expiry))

(* /warn at the warn limit with punishment_type mute: warn_command *)
WarnMuteStart(t, c, u, d) ==
    CanIssue /\ HandlerStart(t, "warn_command", "restrict", c, u, now + d)

WarnMuteRestrict(t) == RestrictStep(t, "warn_command", "add")

WarnMuteAdd(t) ==
    AddStep(t, "warn_command",
            AddPunishment(punishments, task[t].chat, task[t].user, "mute", task[t].expiry))

(* raid auto-mute: message_handler *)
AutoMuteStart(t, c, u, d) ==
    CanIssue /\ HandlerStart(t, "message_handler", "fetch", c, u, now + d)

\* user_already_muted: the handler mutes only a member without an active mute
AutoMuteFetch(t) ==
    /\ At(t, "message_handler", "fetch")
    /\ LET snap == GetActivePunishments(punishments, task[t].chat, "mute")
       IN task' = [task EXCEPT ![t] =
                     IF AnyOfSubject(punishments, snap, task[t].user) THEN IdleTask
                     ELSE [task[t] EXCEPT !.pc = "restrict"]]
    /\ UNCHANGED <<phase, bcast, limiter, voteVars, now, punishments, chatActive, restricted, banned, recently, histVars>>

AutoMuteRestrict(t) == RestrictStep(t, "message_handler", "add")

AutoMuteAdd(t) ==
    AddStep(t, "message_handler",
            AddPunishment(punishments, task[t].chat, task[t].user, "mute", task[t].expiry))

(* /ban: ban_command; e is NoExpiry for a permanent ban *)
BanCommandStart(t, c, u, e) ==
    CanIssue /\ HandlerStart(t, "ban_command", "ban", c, u, e)

\* ban_chat_member: on failure the handler ends
BanCommandBan(t) ==
    /\ At(t, "ban_command", "ban")
    /\ \E r \in CmdOutcomes :
          /\ banned' = IF r = "ok" THEN banned \cup {<<task[t].chat, task[t].user>>}
                       ELSE banned
          /\ task' = [task EXCEPT ![t] =
                        IF r = "ok" THEN [task[t] EXCEPT !.pc = "add"] ELSE IdleTask]
    /\ UNCHANGED <<phase, bcast, limiter, voteVars, now, punishments, chatActive, restricted, recently, histVars>>

BanCommandAdd(t) ==
    AddStep(t, "ban_command",
            AddPunishment(punishments, task[t].chat, task[t].user, "ban", task[t].expiry))

----------------------------------------------------------------------------
(* Moderation handlers of bot.py that lift punishments *)

(* /unmute: unmute_command *)
UnmuteCommandStart(t, c, u) == HandlerStart(t, "unmute_command", "unrestrict", c, u, 0)

\* restrict_chat_member with all send permissions: on failure the handler ends
UnmuteCommandUnrestrict(t) ==
    /\ At(t, "unmute_command", "unrestrict")
    /\ \E r \in CmdOutcomes :
          /\ restricted' = IF r = "ok" THEN restricted \ {<<task[t].chat, task[t].user>>}
                           ELSE restricted
          /\ task' = [task EXCEPT ![t] =
                        IF r = "ok" THEN [task[t] EXCEPT !.pc = "fetch"] ELSE IdleTask]
    /\ UNCHANGED <<phase, bcast, limiter, voteVars, now, punishments, chatActive, banned, recently, histVars>>

UnmuteCommandFetch(t) == FetchStep(t, "unmute_command", "mute", "idle")

UnmuteCommandDeactivate(t) == DeactStep(t, "unmute_command", "idle")

(* /unban: unban_command *)
UnbanCommandStart(t, c, u) == HandlerStart(t, "unban_command", "unban", c, u, 0)

\* unban_chat_member: on failure the handler ends
UnbanCommandUnban(t) ==
    /\ At(t, "unban_command", "unban")
    /\ \E r \in CmdOutcomes :
          /\ banned' = IF r = "ok" THEN banned \ {<<task[t].chat, task[t].user>>}
                       ELSE banned
          /\ task' = [task EXCEPT ![t] =
                        IF r = "ok" THEN [task[t] EXCEPT !.pc = "fetch"] ELSE IdleTask]
    /\ UNCHANGED <<phase, bcast, limiter, voteVars, now, punishments, chatActive, restricted, recently, histVars>>

UnbanCommandFetch(t) == FetchStep(t, "unban_command", "ban", "idle")

UnbanCommandDeactivate(t) == DeactStep(t, "unban_command", "idle")

----------------------------------------------------------------------------
(* Vote store: votemute_db *)

\* the variables of the reconciler that the vote engine leaves alone
reconVars == <<chatActive, banned, recently, histVars>>

\* create_vote: the new row of active_votes; vote_id is the AUTOINCREMENT key
CreateVote(vs, c, u, cr, n) ==
    Append(vs, [chat |-> c, target |-> u, creator |-> cr,
                mute_duration |-> MuteDuration, required_votes |-> RequiredVotes,
                expires_at |-> n + VoteWindow])

\* get_active_vote: the rows of the chat with expires_at > now
GetActiveVote(c, n) == {v \in active_votes : votes[v].chat = c /\ votes[v].expires_at > n}

\* get_vote_by_id finds the row
GetVoteById(v) == v \in active_votes

\* add_vote: a member's ballot changes only BallotCooldown after its last change
AddVoteAccepts(rs, v, u, n) ==
    \A r \in rs : (r.vote_id = v /\ r.user_id = u) => n - r.last_change_at >= BallotCooldown

\* add_vote: one row per vote and member, inserted or updated
AddVote(rs, v, u, ty, n) ==
    {r \in rs : ~(r.vote_id = v /\ r.user_id = u)}
        \cup {[vote_id |-> v, user_id |-> u, vote_type |-> ty, last_change_at |-> n]}

\* get_vote_results: COUNT(*) GROUP BY vote_type
GetVoteResults(rs, v) ==
    [yes |-> Cardinality({r \in rs : r.vote_id = v /\ r.vote_type = "yes"}),
     no  |-> Cardinality({r \in rs : r.vote_id = v /\ r.vote_type = "no"})]

\* create_vote stores vote_duration in minutes
VoteDuration == VoteWindow \div 60

\* the vote_history row of finish_vote and cleanup_expired_votes: the INSERT
\* takes vote_data[0..6] (vote_id, chat_id, target_user_id, creator_id,
\* mute_duration, required_votes, vote_duration) for the columns chat_id,
\* target_user_id, creator_id, mute_duration, required_votes, vote_duration,
\* created_at
HistoryRow(v, result, reason, rs) ==
    [vote_id |-> v, chat_id |-> v, target_user_id |-> votes[v].chat,
     creator_id |-> votes[v].target, mute_duration |-> votes[v].creator,
     required_votes |-> votes[v].mute_duration,
     vote_duration |-> votes[v].required_votes, created_at |-> VoteDuration,
     result |-> result, reason |-> reason,
     votes_yes |-> GetVoteResults(rs, v).yes, votes_no |-> GetVoteResults(rs, v).no]

FinishVoteNothing(v, result, reason) ==
    UNCHANGED <<phase, bcast, limiter, vote_history, active_votes, vote_results>>

\* finish_vote: the row moves to vote_history with its ballots deleted; nothing
\* happens when the row is gone
FinishVote(v, result, reason) ==
    IF v \in active_votes
    THEN /\ vote_history' = vote_history \cup {HistoryRow(v, result, reason, vote_results)}
         /\ active_votes' = active_votes \ {v}
         /\ vote_results' = {r \in vote_results : r.vote_id # v}
    ELSE UNCHANGED <<phase, bcast, limiter, vote_history, active_votes, vote_results>>

\* check_cooldown
CheckCooldown(cd, c, n) == cd[c] = NoTs \/ n - cd[c] >= CreateCooldown

\* set_cooldown
SetCooldown(cd, c, n) == [cd EXCEPT ![c] = n]

\* get_effective_rank
GetEffectiveRank(c, u) == IF u = Moderator THEN RANK_JUNIOR_MOD ELSE RANK_USER

----------------------------------------------------------------------------
(* /votemute: votemute_command *)

\* votes that coroutines in flight are still going to create
PendingVotes == Cardinality({t \in Tasks : task[t].op = "votemute_command"})

CanCreate(cap) == Len(votes) + PendingVotes < cap

\* the command arrives in a group chat, from Creator, naming member u
VotemuteStart(t, c, u, cap) ==
    /\ Accepting
    /\ FreeSlot(t)
    /\ CanCreate(cap)
    /\ task' = [task EXCEPT ![t] =
                  [IdleTask EXCEPT !.op = "votemute_command", !.pc = "cooldown",
                                   !.chat = c, !.user = u]]
    /\ UNCHANGED <<phase, bcast, limiter, now, punishments, restricted, reconVars, voteVars>>

\* check_cooldown: "once in 3 minutes"
VotemuteCooldown(t) ==
    /\ At(t, "votemute_command", "cooldown")
    /\ task' = [task EXCEPT ![t] =
                  IF CheckCooldown(vote_cooldowns, task[t].chat, now)
                  THEN [task[t] EXCEPT !.pc = "active"] ELSE IdleTask]
    /\ UNCHANGED <<phase, bcast, limiter, now, punishments, restricted, reconVars, voteVars>>

\* get_active_vote: "the chat already has an active vote"; then the target
\* must not be the creator and get_effective_rank must give RANK_USER
VotemuteActive(t) ==
    /\ At(t, "votemute_command", "active")
    /\ task' = [task EXCEPT ![t] =
                  IF /\ GetActiveVote(task[t].chat, now) = {}
                     /\ task[t].user # Creator
                     /\ GetEffectiveRank(task[t].chat, task[t].user) = RANK_USER
                  THEN [task[t] EXCEPT !.pc = "set_cooldown"] ELSE IdleTask]
    /\ UNCHANGED <<phase, bcast, limiter, now, punishments, restricted, reconVars, voteVars>>

\* set_cooldown
VotemuteSetCooldown(t) ==
    /\ At(t, "votemute_command", "set_cooldown")
    /\ vote_cooldowns' = SetCooldown(vote_cooldowns, task[t].chat, now)
    /\ task' = [task EXCEPT ![t].pc = "create"]
    /\ UNCHANGED <<phase, bcast, limiter, now, punishments, restricted, reconVars, votes, active_votes,
                   vote_results, vote_history, timers, voteMutes, voteRecords, atThreshold>>

\* create_vote
VotemuteCreate(t) ==
    /\ At(t, "votemute_command", "create")
    /\ votes' = CreateVote(votes, task[t].chat, task[t].user, Creator, now)
    /\ active_votes' = active_votes \cup {Len(votes')}
    /\ task' = [task EXCEPT ![t] = [task[t] EXCEPT !.pc = "send", !.vote = Len(votes')]]
    /\ UNCHANGED <<phase, bcast, limiter, now, punishments, restricted, reconVars, vote_results, vote_cooldowns,
                   vote_history, timers, voteMutes, voteRecords, atThreshold>>

\* send_votemute_message and update_vote_message_id, then
\* create_task(votemute_timer(vote_id, 5 * 60)); on failure the handler
\* reports the error and no timer is started
VotemuteSend(t) ==
    /\ At(t, "votemute_command", "send")
    /\ \E r \in CmdOutcomes :
          timers' = IF r = "ok" THEN [timers EXCEPT ![task[t].vote] = now + TimerDelay]
                    ELSE timers
    /\ task' = [task EXCEPT ![t] = IdleTask]
    /\ UNCHANGED <<phase, bcast, limiter, now, punishments, restricted, reconVars, votes, active_votes,
                   vote_results, vote_cooldowns, vote_history, voteMutes, voteRecords,
                   atThreshold>>

----------------------------------------------------------------------------
(* Vote buttons: vote_callback_handler *)

\* the members whose button presses reach the handler
Callers == Subjects \cup {Creator, Moderator} \cup Voters

BallotTypes == {"yes", "no"}

\* the majority rule of vote_callback_handler and votemute_timer
MajorityResult(results) == IF results.yes > results.no THEN "success" ELSE "failed"

\* the majority at the moment the tally first reaches the threshold
ThresholdMark(mark, rs, v) ==
    IF mark = "none"
       /\ GetVoteResults(rs, v).yes + GetVoteResults(rs, v).no >= votes[v].required_votes
    THEN (IF GetVoteResults(rs, v).yes > GetVoteResults(rs, v).no
          THEN "applied" ELSE "rejected")
    ELSE mark

BallotAdmitsAnyRank(v, u, n) ==
    /\ GetVoteById(v)
    /\ votes[v].expires_at > n
    /\ u # votes[v].creator
    /\ u # votes[v].target

BallotAdmitsLate(v, u, n) ==
    /\ GetVoteById(v)
    /\ u # votes[v].creator
    /\ u # votes[v].target
    /\ GetEffectiveRank(votes[v].chat, u) = RANK_USER

\* the handler takes a ballot on to add_vote: get_vote_by_id finds the vote,
\* it has not expired, the member is neither its creator nor its target, and
\* get_effective_rank gives RANK_USER
BallotAdmits(v, u, n) ==
    /\ GetVoteById(v)
    /\ votes[v].expires_at > n
    /\ u # votes[v].creator
    /\ u # votes[v].target
    /\ GetEffectiveRank(votes[v].chat, u) = RANK_USER

\* a button press of member u under the message of vote v; a press that is
\* turned away changes nothing
BallotStart(t, v, u, ty) ==
    /\ Accepting
    /\ FreeSlot(t)
    /\ BallotAdmits(v, u, now)
    /\ task' = [task EXCEPT ![t] =
                  [IdleTask EXCEPT !.op = "vote_callback_handler", !.pc = "add",
                                   !.chat = votes[v].chat, !.user = u, !.vote = v,
                                   !.ballot = ty]]
    /\ UNCHANGED <<phase, bcast, limiter, now, punishments, restricted, reconVars, voteVars>>

\* a button press that the handler turns away: safe_answer_callback tells the
\* member why, and the handler returns
BallotRefuse(t, v, u, ty) ==
    /\ Accepting
    /\ FreeSlot(t)
    /\ ~BallotAdmits(v, u, now)
    /\ task' = [task EXCEPT ![t] =
                  [IdleTask EXCEPT !.op = "vote_callback_handler", !.pc = "answer",
                                   !.user = u, !.vote = v, !.ballot = ty]]
    /\ UNCHANGED <<phase, bcast, limiter, now, punishments, restricted, reconVars, voteVars>>

\* safe_answer_callback is over
BallotAnswer(t) ==
    /\ At(t, "vote_callback_handler", "answer")
    /\ task' = [task EXCEPT ![t] = IdleTask]
    /\ UNCHANGED <<phase, bcast, limiter, now, punishments, restricted, reconVars, voteVars>>

\* add_vote: a refused ballot ends the handler
BallotAdd(t) ==
    /\ At(t, "vote_callback_handler", "add")
    /\ LET v == task[t].vote
           rs == AddVote(vote_results, v, task[t].user, task[t].ballot, now)
       IN IF AddVoteAccepts(vote_results, v, task[t].user, now)
          THEN /\ vote_results' = rs
               /\ atThreshold' = [atThreshold EXCEPT ![v] = ThresholdMark(@, rs, v)]
               /\ task' = [task EXCEPT ![t].pc = "tally"]
          ELSE /\ task' = [task EXCEPT ![t] = IdleTask]
               /\ UNCHANGED <<phase, bcast, limiter, vote_results, atThreshold>>
    /\ UNCHANGED <<phase, bcast, limiter, now, punishments, restricted, reconVars, votes, active_votes,
                   vote_cooldowns, vote_history, timers, voteMutes, voteRecords>>

\* get_vote_results, update_vote_message, then the threshold check on the
\* tally that was read
BallotTally(t) ==
    /\ At(t, "vote_callback_handler", "tally")
    /\ LET results == GetVoteResults(vote_results, task[t].vote)
       IN task' = [task EXCEPT ![t] =
                     IF results.yes + results.no >= votes[task[t].vote].required_votes
                     THEN [task[t] EXCEPT !.pc = "fin_get",
                                          !.result = MajorityResult(results)]
                     ELSE IdleTask]
    /\ UNCHANGED <<phase, bcast, limiter, now, punishments, restricted, reconVars, voteVars>>

----------------------------------------------------------------------------
(* Deadline: votemute_timer *)

\* asyncio.sleep is over; get_vote_by_id: without the row the timer ends;
\* get_vote_results and the majority rule give the result for finish_votemute
TimerWake(t, v) ==
    /\ FreeSlot(t)
    /\ timers[v] # NoTs
    /\ now >= timers[v]
    /\ timers' = [timers EXCEPT ![v] = NoTs]
    /\ task' = [task EXCEPT ![t] =
                  IF GetVoteById(v)
                  THEN [IdleTask EXCEPT !.op = "votemute_timer", !.pc = "fin_get",
                                        !.chat = votes[v].chat, !.vote = v,
                                        !.result = MajorityResult(
                                                      GetVoteResults(vote_results, v))]
                  ELSE IdleTask]
    /\ UNCHANGED <<phase, bcast, limiter, now, punishments, restricted, reconVars, votes, active_votes,
                   vote_results, vote_cooldowns, vote_history, voteMutes, voteRecords,
                   atThreshold>>

----------------------------------------------------------------------------
(* Resolution: finish_votemute, called by the vote handler and by the timer *)

FinishOps == {"vote_callback_handler", "votemute_timer"}

InFinish(t, p) == task[t].op \in FinishOps /\ task[t].pc = p

\* the reason the caller passes with the result
FinishReason(o, result) ==
    IF o = "votemute_timer"
    THEN (IF result = "success" THEN "time_majority_for" ELSE "time_majority_against")
    ELSE (IF result = "success" THEN "majority_for" ELSE "majority_against")

\* get_vote_by_id: "if not vote_data: return"; get_vote_results for the text
FinishGet(t) ==
    /\ InFinish(t, "fin_get")
    /\ task' = [task EXCEPT ![t] =
                  IF GetVoteById(task[t].vote)
                  THEN [task[t] EXCEPT !.pc = "fin_finish"] ELSE IdleTask]
    /\ UNCHANGED <<phase, bcast, limiter, now, punishments, restricted, reconVars, voteVars>>

\* finish_vote, whose return value is not looked at; on "success" mute_until
\* is taken and the mute follows, otherwise edit_message_text ends the call
FinishFinish(t) ==
    /\ InFinish(t, "fin_finish")
    /\ FinishVote(task[t].vote, task[t].result, FinishReason(task[t].op, task[t].result))
    /\ task' = [task EXCEPT ![t] =
                  IF task[t].result = "success"
                  THEN [task[t] EXCEPT !.pc = "fin_restrict",
                                       !.expiry = now + votes[task[t].vote].mute_duration]
                  ELSE IdleTask]
    /\ UNCHANGED <<phase, bcast, limiter, now, punishments, restricted, reconVars, votes, vote_cooldowns, timers,
                   voteMutes, voteRecords, atThreshold>>

\* restrict_chat_member of the target: on failure edit_message_text shows
\* the error text and the call ends
FinishRestrict(t) ==
    /\ InFinish(t, "fin_restrict")
    /\ \E r \in CmdOutcomes :
          /\ restricted' = IF r = "ok"
                           THEN restricted \cup {<<task[t].chat, votes[task[t].vote].target>>}
                           ELSE restricted
          /\ voteMutes' = [voteMutes EXCEPT ![task[t].vote] = @ + (IF r = "ok" THEN 1 ELSE 0)]
          /\ task' = [task EXCEPT ![t] =
                        IF r = "ok" THEN [task[t] EXCEPT !.pc = "fin_add"] ELSE IdleTask]
    /\ UNCHANGED <<phase, bcast, limiter, now, punishments, reconVars, votes, active_votes, vote_results,
                   vote_cooldowns, vote_history, timers, voteRecords, atThreshold>>

\* add_punishment of the vote's mute, then the reputation penalty and
\* edit_message_text with the final text
FinishAdd(t) ==
    /\ InFinish(t, "fin_add")
    /\ punishments' = AddPunishment(punishments, task[t].chat, votes[task[t].vote].target,
                                    "mute", task[t].expiry)
    /\ voteRecords' = [voteRecords EXCEPT ![task[t].vote] = @ + 1]
    /\ task' = [task EXCEPT ![t] = IdleTask]
    /\ UNCHANGED <<phase, bcast, limiter, now, restricted, reconVars, votes, active_votes, vote_results,
                   vote_cooldowns, vote_history, timers, voteMutes, atThreshold>>

----------------------------------------------------------------------------
(* TaskScheduler.cleanup_expired_votes_task: votemute_db.cleanup_expired_votes *)

\* every row with expires_at <= now moves to vote_history as failed
CleanupExpiredVotes ==
    LET expired == {v \in active_votes : votes[v].expires_at <= now}
    IN /\ expired # {}
       /\ vote_history' = vote_history \cup
             {HistoryRow(v, "failed", "time_expired", vote_results) : v \in expired}
       /\ active_votes' = active_votes \ expired
       /\ vote_results' = {r \in vote_results : r.vote_id \notin expired}
       /\ UNCHANGED <<phase, bcast, limiter, now, punishments, restricted, reconVars, task, votes, vote_cooldowns,
                      timers, voteMutes, voteRecords, atThreshold>>

----------------------------------------------------------------------------
(* The clock *)

Tick ==
    /\ now < MaxTime
    /\ now' = now + TickSeconds
    /\ UNCHANGED <<phase, bcast, limiter, voteVars, punishments, chatActive, restricted, banned, recently, task, histVars>>

\* the clock while votes run
VoteTick ==
    /\ now < MaxVoteTime
    /\ now' = now + VoteTickSeconds
    /\ UNCHANGED <<phase, bcast, limiter, voteVars, punishments, chatActive, restricted, banned, recently, task, histVars>>

----------------------------------------------------------------------------
(* The reconciler with the moderation handlers *)

Init ==
    /\ now = 0
    /\ punishments = <<>>
    /\ chatActive = [c \in Chats |-> TRUE]
    /\ restricted = {}
    /\ banned = {}
    /\ recently = [id \in PunishmentIds |-> NoTs]
    /\ task = [t \in Tasks |-> IdleTask]
    /\ scanWins = [id \in PunishmentIds |-> 0]
    /\ scanLosses = [id \in PunishmentIds |-> 0]
    /\ scanReversals = [id \in PunishmentIds |-> 0]
    /\ scanNotices = [id \in PunishmentIds |-> 0]
    /\ lostActs = [id \in PunishmentIds |-> 0]
    /\ votes = <<>>
    /\ active_votes = {}
    /\ vote_results = {}
    /\ vote_cooldowns = [c \in Chats |-> NoTs]
    /\ vote_history = {}
    /\ timers = [v \in VoteIds |-> NoTs]
    /\ voteMutes = [v \in VoteIds |-> 0]
    /\ voteRecords = [v \in VoteIds |-> 0]
    /\ atThreshold = [v \in VoteIds |-> "none"]
    /\ phase = "running"
    /\ bcast = BcastIdle
    /\ limiter = LimiterIdle

MuteScanNext ==
    \E t \in Tasks :
        \/ \E c \in Chats : MuteScanStart(t, c)
        \/ MuteScanMember(t)
        \/ MuteScanFetch(t)
        \/ MuteScanCAS(t)
        \/ MuteScanUnrestrict(t)
        \/ MuteScanNotify(t)
        \/ MuteScanGather(t)

BanScanNext ==
    \E t \in Tasks :
        \/ \E c \in Chats : BanScanStart(t, c)
        \/ BanScanFetch(t)
        \/ BanScanCAS(t)
        \/ BanScanUnban(t)
        \/ BanScanNotify(t)
        \/ BanScanDm(t)
        \/ BanScanGather(t)

MuteCommandNext ==
    \E t \in Tasks :
        \/ \E c \in Chats, u \in Subjects, d \in Durations : MuteCommandStart(t, c, u, d)
        \/ MuteCommandRestrict(t)
        \/ MuteCommandFetch(t)
        \/ MuteCommandDeactivate(t)
        \/ MuteCommandAdd(t)

IssueNext ==
    \E t \in Tasks :
        \/ \E c \in Chats, u \in Subjects, d \in Durations : WarnMuteStart(t, c, u, d)
        \/ WarnMuteRestrict(t)
        \/ WarnMuteAdd(t)
        \/ \E c \in Chats, u \in Subjects, d \in Durations : AutoMuteStart(t, c, u, d)
        \/ AutoMuteFetch(t)
        \/ AutoMuteRestrict(t)
        \/ AutoMuteAdd(t)
        \/ \E c \in Chats, u \in Subjects, d \in Durations :
              BanCommandStart(t, c, u, now + d)
        \/ \E c \in Chats, u \in Subjects : BanCommandStart(t, c, u, NoExpiry)
        \/ BanCommandBan(t)
        \/ BanCommandAdd(t)

LiftNext ==
    \E t \in Tasks :
        \/ \E c \in Chats, u \in Subjects : UnmuteCommandStart(t, c, u)
        \/ UnmuteCommandUnrestrict(t)
        \/ UnmuteCommandFetch(t)
        \/ UnmuteCommandDeactivate(t)
        \/ \E c \in Chats, u \in Subjects : UnbanCommandStart(t, c, u)
        \/ UnbanCommandUnban(t)
        \/ UnbanCommandFetch(t)
        \/ UnbanCommandDeactivate(t)

Next == Tick \/ MuteScanNext \/ BanScanNext \/ MuteCommandNext \/ IssueNext \/ LiftNext

Spec == Init /\ [][Next]_vars

----------------------------------------------------------------------------
(* The mute loop with /mute, under the scheduling of the event loop: the    *)
(* clock runs, a coroutine that can take its next step takes it, and        *)
(* "while self.running" starts scan after scan                              *)

MuteScanStep(t) ==
    \/ MuteScanMember(t)
    \/ MuteScanFetch(t)
    \/ MuteScanCAS(t)
    \/ MuteScanUnrestrict(t)
    \/ MuteScanNotify(t)
    \/ MuteScanGather(t)

MuteCommandStep(t) ==
    \/ MuteCommandRestrict(t)
    \/ MuteCommandFetch(t)
    \/ MuteCommandDeactivate(t)
    \/ MuteCommandAdd(t)

NextLive == Tick \/ MuteScanNext \/ MuteCommandNext

FairLive ==
    /\ WF_vars(Tick)
    /\ \A t \in Tasks : WF_vars(MuteScanStep(t)) /\ WF_vars(MuteCommandStep(t))
    /\ SF_vars(\E t \in Tasks, c \in Chats : MuteScanStart(t, c))

SpecLive == Init /\ [][NextLive]_vars /\ FairLive

----------------------------------------------------------------------------
(* The vote engine with /mute *)

VotemuteNext(cap) ==
    \E t \in Tasks :
        \/ \E c \in Chats, u \in Subjects \cup {Creator, Moderator} :
              VotemuteStart(t, c, u, cap)
        \/ VotemuteCooldown(t)
        \/ VotemuteActive(t)
        \/ VotemuteSetCooldown(t)
        \/ VotemuteCreate(t)
        \/ VotemuteSend(t)

BallotNext ==
    \E t \in Tasks :
        \/ \E v \in VoteIds, u \in Callers, ty \in BallotTypes : BallotStart(t, v, u, ty)
        \/ BallotAdd(t)
        \/ BallotTally(t)

TimerNext ==
    \E t \in Tasks :
        \/ \E v \in VoteIds : TimerWake(t, v)

FinishNext ==
    \E t \in Tasks :
        \/ FinishGet(t)
        \/ FinishFinish(t)
        \/ FinishRestrict(t)
        \/ FinishAdd(t)

NextVote ==
    \/ VoteTick
    \/ VotemuteNext(MaxBallotedVotes)
    \/ BallotNext
    \/ TimerNext
    \/ FinishNext
    \/ CleanupExpiredVotes
    \/ MuteCommandNext

SpecVote == Init /\ [][NextVote]_vars

----------------------------------------------------------------------------
(* Vote creation alone *)

NextCreate == VoteTick \/ VotemuteNext(MaxVotes) \/ CleanupExpiredVotes

SpecCreate == Init /\ [][NextCreate]_vars

----------------------------------------------------------------------------
(* The vote buttons, with the presses that are turned away *)

RefuseNext ==
    \E t \in Tasks :
        \/ \E v \in VoteIds, u \in Callers, ty \in BallotTypes : BallotRefuse(t, v, u, ty)
        \/ BallotAnswer(t)

NextBallot ==
    \/ VoteTick
    \/ VotemuteNext(MaxBallotedVotes)
    \/ BallotNext
    \/ RefuseNext
    \/ FinishNext

SpecBallot == Init /\ [][NextBallot]_vars

----------------------------------------------------------------------------
(* VoteMuteDatabase under concurrent calls.  Every method hands its _sync   *)
(* function to the default executor, so the calls in flight run in threads  *)
(* of their own, each on a connection of its own.  A SELECT runs outside a  *)
(* transaction; the INSERT, UPDATE and DELETE statements up to commit are   *)
(* one transaction.  A call is therefore two steps: what it reads, then     *)
(* what it writes.                                                          *)

\* SELECT ... FROM vote_results WHERE vote_id = ? AND user_id = ?
BallotRows(rs, v, u) == {r \in rs : r.vote_id = v /\ r.user_id = u}

\* create_vote: one INSERT and commit
StoreCreateVote(c, u) ==
    /\ Len(votes) < MaxBallotedVotes
    /\ votes' = CreateVote(votes, c, u, Creator, now)
    /\ active_votes' = active_votes \cup {Len(votes')}
    /\ UNCHANGED <<phase, bcast, limiter, now, punishments, restricted, reconVars, task, vote_results,
                   vote_cooldowns, vote_history, timers, voteMutes, voteRecords,
                   atThreshold>>

\* add_vote: now = datetime.now(), the SELECT of the member's row and the
\* cooldown check, which returns False
AddVoteSelect(t, v, u, ty) ==
    /\ FreeSlot(t)
    /\ v \in 1..Len(votes)
    /\ task' = [task EXCEPT ![t] =
                  IF AddVoteAccepts(vote_results, v, u, now)
                  THEN [IdleTask EXCEPT !.op = "add_vote", !.pc = "write", !.vote = v,
                                        !.user = u, !.ballot = ty, !.tref = now,
                                        !.existing = (BallotRows(vote_results, v, u) # {})]
                  ELSE IdleTask]
    /\ UNCHANGED <<phase, bcast, limiter, now, punishments, restricted, reconVars, voteVars>>

KeyFreeAlways(rs, v, u) == TRUE

\* vote_results: PRIMARY KEY (vote_id, user_id)
KeyFree(rs, v, u) == BallotRows(rs, v, u) = {}

\* INSERT INTO vote_results: refused (IntegrityError) when the key is taken
InsertBallot(rs, v, u, ty, n) ==
    IF KeyFree(rs, v, u)
    THEN rs \cup {[vote_id |-> v, user_id |-> u, vote_type |-> ty, last_change_at |-> n]}
    ELSE rs

\* UPDATE vote_results ... WHERE vote_id = ? AND user_id = ?
UpdateBallot(rs, v, u, ty, n) ==
    {IF r.vote_id = v /\ r.user_id = u
     THEN [r EXCEPT !.vote_type = ty, !.last_change_at = n] ELSE r : r \in rs}

\* add_vote: UPDATE of the row that was found, or INSERT, which the primary
\* key (vote_id, user_id) refuses when the row is there; commit
AddVoteWrite(t) ==
    /\ At(t, "add_vote", "write")
    /\ LET v == task[t].vote
           u == task[t].user
       IN vote_results' =
            IF task[t].existing
            THEN UpdateBallot(vote_results, v, u, task[t].ballot, task[t].tref)
            ELSE InsertBallot(vote_results, v, u, task[t].ballot, task[t].tref)
    /\ task' = [task EXCEPT ![t] = IdleTask]
    /\ UNCHANGED <<phase, bcast, limiter, now, punishments, restricted, reconVars, votes, active_votes,
                   vote_cooldowns, vote_history, timers, voteMutes, voteRecords,
                   atThreshold>>

\* the row finish_vote and cleanup_expired_votes insert from a tally they read
HistoryRowOf(v, result, reason, results) ==
    [HistoryRow(v, result, reason, {}) EXCEPT !.votes_yes = results.yes,
                                              !.votes_no = results.no]

\* finish_vote: SELECT of the active_votes row, "if not vote_data: return
\* None", SELECT of the tally; no transaction is open after the reads
FinishVoteSelect(t, v, result) ==
    /\ FreeSlot(t)
    /\ v \in 1..Len(votes)
    /\ task' = [task EXCEPT ![t] =
                  IF v \in active_votes
                  THEN [IdleTask EXCEPT !.op = "finish_vote", !.pc = "write", !.vote = v,
                                        !.result = result,
                                        !.results = GetVoteResults(vote_results, v)]
                  ELSE [IdleTask EXCEPT !.op = "finish_vote", !.pc = "return", !.vote = v]]
    /\ UNCHANGED <<phase, bcast, limiter, now, punishments, restricted, reconVars, voteVars>>

\* finish_vote: INSERT INTO vote_history of the row that was read, DELETE
\* from active_votes and vote_results, commit; the row read is returned
FinishVoteWrite(t) ==
    /\ At(t, "finish_vote", "write")
    /\ LET v == task[t].vote
       IN /\ vote_history' = vote_history \cup
                {HistoryRowOf(v, task[t].result, FinishReason("finish_vote", task[t].result),
                              task[t].results)}
          /\ active_votes' = active_votes \ {v}
          /\ vote_results' = {r \in vote_results : r.vote_id # v}
    /\ task' = [task EXCEPT ![t] = [task[t] EXCEPT !.pc = "return", !.existing = TRUE]]
    /\ UNCHANGED <<phase, bcast, limiter, now, punishments, restricted, reconVars, votes, vote_cooldowns, timers,
                   voteMutes, voteRecords, atThreshold>>

\* finish_vote hands its result to the caller: the row (existing) or None
FinishVoteReturn(t) ==
    /\ At(t, "finish_vote", "return")
    /\ task' = [task EXCEPT ![t] = IdleTask]
    /\ UNCHANGED <<phase, bcast, limiter, now, punishments, restricted, reconVars, voteVars>>

VoteExpiredAlways(v, n) == TRUE

\* "WHERE expires_at <= ?" with now
VoteExpired(v, n) == votes[v].expires_at <= n

RECURSIVE ExpiredVotesFrom(_, _, _)
\* SELECT vote_id FROM active_votes WHERE expires_at <= now, from id v on
ExpiredVotesFrom(av, n, v) ==
    IF v > Len(votes) THEN <<>>
    ELSE (IF v \in av /\ VoteExpired(v, n) THEN <<v>> ELSE <<>>)
             \o ExpiredVotesFrom(av, n, v + 1)

\* index of the first id of snap from i on whose row is in active_votes
RECURSIVE NextLiveVote(_, _, _)
NextLiveVote(av, snap, i) ==
    IF i > Len(snap) \/ snap[i] \in av THEN i ELSE NextLiveVote(av, snap, i + 1)

\* cleanup_expired_votes: SELECT of the expired ids
CleanupSelect(t) ==
    /\ FreeSlot(t)
    /\ LET expired == ExpiredVotesFrom(active_votes, now, 1)
       IN /\ expired # <<>>
          /\ task' = [task EXCEPT ![t] =
                        [IdleTask EXCEPT !.op = "cleanup_expired_votes", !.pc = "read",
                                         !.snap = expired, !.i = 1]]
    /\ UNCHANGED <<phase, bcast, limiter, now, punishments, restricted, reconVars, voteVars>>

\* cleanup_expired_votes: the loop up to the first id whose row the SELECT
\* still finds ("if vote_data:"), and the SELECT of its tally; the INSERT
\* that follows opens the transaction.  "return len(expired_votes)"
CleanupRead(t) ==
    /\ At(t, "cleanup_expired_votes", "read")
    /\ LET k == NextLiveVote(active_votes, task[t].snap, task[t].i)
       IN task' = [task EXCEPT ![t] =
                     IF k > Len(task[t].snap)
                     THEN [task[t] EXCEPT !.pc = "return", !.count = Len(task[t].snap)]
                     ELSE [task[t] EXCEPT !.pc = "write", !.i = k,
                              !.results = GetVoteResults(vote_results, task[t].snap[k])]]
    /\ UNCHANGED <<phase, bcast, limiter, now, punishments, restricted, reconVars, voteVars>>

\* cleanup_expired_votes: the INSERT and DELETEs of the id that was read, the
\* rest of the loop inside the transaction (rows that are gone are skipped),
\* commit, "return len(expired_votes)"
CleanupWrite(t) ==
    /\ At(t, "cleanup_expired_votes", "write")
    /\ LET first == task[t].snap[task[t].i]
           rest == {task[t].snap[k] : k \in (task[t].i + 1)..Len(task[t].snap)}
                       \cap active_votes
       IN /\ vote_history' = vote_history
                \cup {HistoryRowOf(first, "failed", "time_expired", task[t].results)}
                \cup {HistoryRow(v, "failed", "time_expired", vote_results) : v \in rest}
          /\ active_votes' = active_votes \ ({first} \cup rest)
          /\ vote_results' = {r \in vote_results : r.vote_id \notin ({first} \cup rest)}
          /\ task' = [task EXCEPT ![t] =
                        [task[t] EXCEPT !.pc = "return", !.count = Len(task[t].snap),
                                        !.done = 1 + Cardinality(rest)]]
    /\ UNCHANGED <<phase, bcast, limiter, now, punishments, restricted, reconVars, votes, vote_cooldowns, timers,
                   voteMutes, voteRecords, atThreshold>>

\* cleanup_expired_votes_task logs deleted_count
CleanupReturn(t) ==
    /\ At(t, "cleanup_expired_votes", "return")
    /\ task' = [task EXCEPT ![t] = IdleTask]
    /\ UNCHANGED <<phase, bcast, limiter, now, punishments, restricted, reconVars, voteVars>>

\* the clock between two ballots
StoreTickSeconds == 15
\* steps of the clock between two ballots
MaxStoreTicks == 2

MaxStoreTime == StoreTickSeconds * MaxStoreTicks

StoreTick ==
    /\ now < MaxStoreTime
    /\ now' = now + StoreTickSeconds
    /\ UNCHANGED <<phase, bcast, limiter, voteVars, punishments, chatActive, restricted, banned, recently, task,
                   histVars>>

AddVoteNext ==
    \E t \in Tasks :
        \/ \E v \in VoteIds, u \in Voters, ty \in BallotTypes : AddVoteSelect(t, v, u, ty)
        \/ AddVoteWrite(t)

FinishVoteNext ==
    \E t \in Tasks :
        \/ \E v \in VoteIds, result \in {"success", "failed"} : FinishVoteSelect(t, v, result)
        \/ FinishVoteWrite(t)
        \/ FinishVoteReturn(t)

CleanupNext ==
    \E t \in Tasks :
        CleanupSelect(t) \/ CleanupRead(t) \/ CleanupWrite(t) \/ CleanupReturn(t)

NextStore ==
    \/ StoreTick
    \/ VoteTick
    \/ \E c \in Chats, u \in Subjects : StoreCreateVote(c, u)
    \/ AddVoteNext

SpecStore == Init /\ [][NextStore]_vars

----------------------------------------------------------------------------
(* The process: main, its finally block, the end of asyncio.run *)

LoopOps == {"process_chat_mutes", "process_chat_bans"}

\* main's finally: scheduler.running = False and task.cancel() for every
\* task of scheduler.tasks, which cancels the scans the loops are gathering;
\* then "await bot.session.close()", during which the other tasks run on.
\* The tasks made by asyncio.create_task(votemute_timer(...)) are in no list.
Shutdown ==
    /\ phase = "running"
    /\ phase' = "stopping"
    /\ task' = [t \in Tasks |-> IF task[t].op \in LoopOps THEN IdleTask ELSE task[t]]
    /\ limiter' = LimiterIdle
    /\ UNCHANGED <<now, punishments, chatActive, restricted, banned, recently, histVars,
                   voteVars, bcast>>

\* main returns and asyncio.run cancels every task that is left; the memory
\* of the process (the dedup cache) goes with it
Exit ==
    /\ phase = "stopping"
    /\ phase' = "down"
    /\ task' = [t \in Tasks |-> IdleTask]
    /\ timers' = [v \in VoteIds |-> NoTs]
    /\ recently' = [id \in PunishmentIds |-> NoTs]
    /\ bcast' = BcastIdle
    /\ limiter' = LimiterIdle
    /\ UNCHANGED <<now, punishments, chatActive, restricted, banned, histVars, votes,
                   active_votes, vote_results, vote_cooldowns, vote_history, voteMutes,
                   voteRecords, atThreshold>>

\* main: init_db of every store, scheduler.start(), dp.start_polling(bot)
Start ==
    /\ phase = "down"
    /\ phase' = "running"
    /\ UNCHANGED <<now, punishments, chatActive, restricted, banned, recently, task,
                   histVars, voteVars, bcast, limiter>>

\* a mute loop with nothing to release, votes with ballots and timers, stop and start
NextLife ==
    \/ VoteTick
    \/ \E t \in Tasks : \/ \E c \in Chats : MuteScanStart(t, c)
                        \/ MuteScanMember(t)
                        \/ MuteScanFetch(t)
                        \/ MuteScanGather(t)
    \/ VotemuteNext(MaxBallotedVotes)
    \/ BallotNext
    \/ TimerNext
    \/ FinishNext
    \/ Shutdown
    \/ Exit
    \/ Start

SpecLife == Init /\ [][NextLife]_vars

----------------------------------------------------------------------------
(* The expiry loops when a store call raises *)

MuteScanSkipAborts(t, j) == task' = [task EXCEPT ![t] = MuteScanReturn(t, 0)]

\* "except Exception as e: logger.error(...); continue" of the loop body of
\* process_chat_mutes
MuteScanSkip(t, j) == MuteScanResume(t, j, "none")

\* get_active_punishments raises: the outer except of process_chat_mutes
\* logs and returns 0
MuteScanFetchRaises(t) ==
    /\ At(t, "process_chat_mutes", "fetch")
    /\ task' = [task EXCEPT ![t] = MuteScanReturn(t, 0)]
    /\ UNCHANGED <<phase, bcast, limiter, voteVars, now, punishments, chatActive, restricted, banned,
                   recently, histVars>>

\* deactivate_punishment raises: nothing is stored, the cache is not
\* written, the loop goes on with the next mute
MuteScanCASRaises(t) ==
    /\ At(t, "process_chat_mutes", "cas")
    /\ MuteScanSkip(t, NextMuteCandidate(punishments, recently, task[t].snap,
                                         task[t].i + 1, task[t].tref, now))
    /\ UNCHANGED <<phase, bcast, limiter, voteVars, now, punishments, chatActive, restricted, banned,
                   recently, histVars>>

\* get_active_punishments raises: the outer except of process_chat_bans
\* logs and returns 0
BanScanFetchRaises(t) ==
    /\ At(t, "process_chat_bans", "fetch")
    /\ task' = [task EXCEPT ![t] = BanScanReturn(t, 0)]
    /\ UNCHANGED <<phase, bcast, limiter, voteVars, now, punishments, chatActive, restricted, banned,
                   recently, histVars>>

\* deactivate_punishment raises: the except of the loop body logs, the
\* loop goes on with the next ban
BanScanCASRaises(t) ==
    /\ At(t, "process_chat_bans", "cas")
    /\ BanScanResume(t, NextBanCandidate(punishments, task[t].snap, task[t].i + 1, now),
                     "none")
    /\ UNCHANGED <<phase, bcast, limiter, voteVars, now, punishments, chatActive, restricted, banned,
                   recently, histVars>>

RaiseNext ==
    \E t \in Tasks :
        \/ MuteScanFetchRaises(t)
        \/ MuteScanCASRaises(t)
        \/ BanScanFetchRaises(t)
        \/ BanScanCASRaises(t)

\* the two expiry loops with /mute and /ban and a store that may raise
NextFault ==
    \/ Tick
    \/ MuteScanNext
    \/ BanScanNext
    \/ RaiseNext
    \/ MuteCommandNext
    \/ \E t \in Tasks :
          \/ \E c \in Chats, u \in Subjects, d \in Durations :
                BanCommandStart(t, c, u, now + d)
          \/ BanCommandBan(t)
          \/ BanCommandAdd(t)

SpecFault == Init /\ [][NextFault]_vars

----------------------------------------------------------------------------
(* The expiry loops over a store that holds rows when the process starts *)

\* expiry_date of a stored row: none, or a time up to MaxTime
StoredExpiries == {NoExpiry} \cup {TickSeconds * k : k \in 0..MaxTicks}

\* the rows add_punishment can have left in the table
StoredRows ==
    [chat : Chats, user : Subjects, kind : {"mute", "ban"}, expiry : StoredExpiries,
     active : BOOLEAN]

StoredTables == UNION {[1..n -> StoredRows] : n \in 0..MaxPunishments}

\* the platform state the active rows were recorded with
HeldPairs(ps, k) ==
    {<<ps[id].chat, ps[id].user>> : id \in {j \in 1..Len(ps) : ps[j].active /\ ps[j].kind = k}}

InitStored ==
    /\ now = 0
    /\ punishments \in StoredTables
    /\ chatActive = [c \in Chats |-> TRUE]
    /\ restricted = HeldPairs(punishments, "mute")
    /\ banned = HeldPairs(punishments, "ban")
    /\ recently = [id \in PunishmentIds |-> NoTs]
    /\ task = [t \in Tasks |-> IdleTask]
    /\ scanWins = [id \in PunishmentIds |-> 0]
    /\ scanLosses = [id \in PunishmentIds |-> 0]
    /\ scanReversals = [id \in PunishmentIds |-> 0]
    /\ scanNotices = [id \in PunishmentIds |-> 0]
    /\ lostActs = [id \in PunishmentIds |-> 0]
    /\ votes = <<>>
    /\ active_votes = {}
    /\ vote_results = {}
    /\ vote_cooldowns = [c \in Chats |-> NoTs]
    /\ vote_history = {}
    /\ timers = [v \in VoteIds |-> NoTs]
    /\ voteMutes = [v \in VoteIds |-> 0]
    /\ voteRecords = [v \in VoteIds |-> 0]
    /\ atThreshold = [v \in VoteIds |-> "none"]
    /\ phase = "running"
    /\ bcast = BcastIdle
    /\ limiter = LimiterIdle

NextStored == Tick \/ MuteScanNext \/ BanScanNext

SpecStored == InitStored /\ [][NextStored]_vars

----------------------------------------------------------------------------
(* The bulk broadcast *)

SendOutcomes == {"ok", "throttled", "error"}

RetryableAlways(attempt) == TRUE

\* "if attempt < max_retries - 1"
Retryable(attempt) == attempt < MaxRetries - 1

\* "wait_time = retry_delay * (2 ** attempt)"
WaitTime(attempt) == RetryDelay * 2 ^ attempt

SendReturnRepeats(b) == [b EXCEPT !.permits = @ + 1, !.pc = "pause", !.i = @ - 1]

\* send_to_chat returns: the semaphore is released, then the for loop sleeps
\* delay_between_messages unless this was the last chat
SendReturn(b) ==
    [b EXCEPT !.permits = @ + 1,
              !.pc = IF b.i < NTargets THEN "pause" ELSE "done"]

\* send_notification_to_all_chats up to the first send_message
BroadcastStart ==
    /\ bcast.pc = "idle"
    /\ bcast.permits > 0
    /\ bcast' = [bcast EXCEPT !.pc = "send", !.i = 1, !.permits = @ - 1]
    /\ UNCHANGED <<task, phase, limiter, voteVars, now, punishments, chatActive,
                   restricted, banned, recently, histVars>>

\* one pass of "for attempt in range(max_retries)": send_message answers r
SendAttempt ==
    /\ bcast.pc = "send"
    /\ \E r \in SendOutcomes :
          LET b == [bcast EXCEPT !.log[bcast.i] = Append(@, r)]
          IN  bcast' =
                CASE r = "ok" -> SendReturn([b EXCEPT !.success_count = @ + 1])
                  [] r = "throttled" /\ Retryable(bcast.attempt) ->
                        [b EXCEPT !.rate_limit_count = @ + 1,
                                  !.waits[bcast.i] = Append(@, WaitTime(bcast.attempt)),
                                  !.pc = "backoff"]
                  [] r = "throttled" /\ ~Retryable(bcast.attempt) ->
                        SendReturn([b EXCEPT !.rate_limit_count = @ + 1,
                                             !.error_count = @ + 1])
                  [] r = "error" -> SendReturn([b EXCEPT !.error_count = @ + 1])
    /\ UNCHANGED <<task, phase, limiter, voteVars, now, punishments, chatActive,
                   restricted, banned, recently, histVars>>

\* "await asyncio.sleep(wait_time); continue"
BackoffDone ==
    /\ bcast.pc = "backoff"
    /\ bcast' = [bcast EXCEPT !.attempt = @ + 1, !.pc = "send"]
    /\ UNCHANGED <<task, phase, limiter, voteVars, now, punishments, chatActive,
                   restricted, banned, recently, histVars>>

\* "await asyncio.sleep(delay_between_messages)", then send_to_chat of the next chat
PauseDone ==
    /\ bcast.pc = "pause"
    /\ bcast.permits > 0
    /\ bcast' = [bcast EXCEPT !.i = @ + 1, !.attempt = 0, !.permits = @ - 1,
                              !.pc = "send"]
    /\ UNCHANGED <<task, phase, limiter, voteVars, now, punishments, chatActive,
                   restricted, banned, recently, histVars>>

BroadcastNext == BroadcastStart \/ SendAttempt \/ BackoffDone \/ PauseDone

\* every await of the broadcast returns or raises
SpecBroadcast == Init /\ [][BroadcastNext]_vars /\ WF_vars(BroadcastNext)

----------------------------------------------------------------------------
(* The shared limiter of the scheduler *)

\* how a coroutine leaves "async with self.chat_semaphore": its body returns
\* (its own except clauses end in a return), or CancelledError passes through
ExitKinds == {"return", "cancel"}

ReleasedOnReturn(value, r) == IF r = "return" THEN value + 1 ELSE value

\* Semaphore.__aexit__ calls release() whatever the exit is
Released(value, r) == value + 1

\* update_single_chat, process_chat_mutes or process_chat_bans of one chat
\* reaches "async with self.chat_semaphore": acquire() takes a permit or waits
WorkerEnter(w) ==
    /\ Accepting
    /\ limiter.worker[w] = "idle"
    /\ limiter' = IF limiter.value > 0
                  THEN [limiter EXCEPT !.value = @ - 1, !.worker[w] = "holding"]
                  ELSE [limiter EXCEPT !.worker[w] = "waiting"]
    /\ UNCHANGED <<task, phase, bcast, voteVars, now, punishments, chatActive,
                   restricted, banned, recently, histVars>>

\* a waiting acquire() is woken by a release and takes the permit
WorkerWake(w) ==
    /\ limiter.worker[w] = "waiting"
    /\ limiter.value > 0
    /\ limiter' = [limiter EXCEPT !.value = @ - 1, !.worker[w] = "holding"]
    /\ UNCHANGED <<task, phase, bcast, voteVars, now, punishments, chatActive,
                   restricted, banned, recently, histVars>>

\* the body of the with block ends
WorkerExit(w) ==
    /\ limiter.worker[w] = "holding"
    /\ \E r \in ExitKinds :
          limiter' = [limiter EXCEPT !.value = Released(@, r), !.worker[w] = "idle",
                                    !.cancelled = @ \/ r = "cancel"]
    /\ UNCHANGED <<task, phase, bcast, voteVars, now, punishments, chatActive,
                   restricted, banned, recently, histVars>>

\* a coroutine is cancelled while it waits: it holds no permit
WorkerCancelled(w) ==
    /\ limiter.worker[w] = "waiting"
    /\ limiter' = [limiter EXCEPT !.worker[w] = "idle", !.cancelled = TRUE]
    /\ UNCHANGED <<task, phase, bcast, voteVars, now, punishments, chatActive,
                   restricted, banned, recently, histVars>>

WorkerNext ==
    \E w \in Workers :
        WorkerEnter(w) \/ WorkerWake(w) \/ WorkerExit(w) \/ WorkerCancelled(w)

\* the coroutines under chat_semaphore and a broadcast
NextLimiter == WorkerNext \/ BroadcastNext

SpecLimiter == Init /\ [][NextLimiter]_vars

----------------------------------------------------------------------------
(* The pacing of the expiry loops *)

\* scheduler.py:347, 535
ShortSleep == 10
\* scheduler.py:350, 538
LongSleep == 60
\* scheduler.py:355, 543
ErrorSleep == 30

\* "if isinstance(result, int): if result > 0: ... has_active_mutes = True"
HasActive(results) == \E k \in 1..Len(results) : results[k] > 0

PacingAlwaysLong(results) == LongSleep

\* "if has_active_mutes: await asyncio.sleep(10) else: await asyncio.sleep(60)"
Pacing(results) == IF HasActive(results) THEN ShortSleep ELSE LongSleep

\* the loop has gathered the results of its scans and goes to sleep
LoopGather(t, o) ==
    /\ At(t, o, "return")
    /\ task' = [task EXCEPT ![t] =
                  [task[t] EXCEPT !.pc = "sleep", !.sleep = Pacing(<<task[t].count>>)]]
    /\ UNCHANGED <<phase, bcast, limiter, voteVars, now, punishments, chatActive, restricted, banned,
                   recently, histVars>>

\* get_all_chats_for_update raises: "except Exception" of the while loop
LoopRaises(t, o) ==
    /\ Accepting
    /\ FreeSlot(t)
    /\ task' = [task EXCEPT ![t] =
                  [IdleTask EXCEPT !.op = o, !.pc = "sleep", !.sleep = ErrorSleep]]
    /\ UNCHANGED <<phase, bcast, limiter, voteVars, now, punishments, chatActive, restricted, banned,
                   recently, histVars>>

\* the sleep of the loop is over
LoopWake(t) ==
    /\ task[t].pc = "sleep"
    /\ task' = [task EXCEPT ![t] = IdleTask]
    /\ UNCHANGED <<phase, bcast, limiter, voteVars, now, punishments, chatActive, restricted, banned,
                   recently, histVars>>

\* the two expiry loops with their sleeps, /mute and /ban
NextPace ==
    \/ Tick
    \/ \E t \in Tasks :
          \/ \E c \in Chats : MuteScanStart(t, c)
          \/ MuteScanMember(t)
          \/ MuteScanFetch(t)
          \/ MuteScanFetchRaises(t)
          \/ MuteScanCAS(t)
          \/ MuteScanUnrestrict(t)
          \/ MuteScanNotify(t)
          \/ LoopGather(t, "process_chat_mutes")
          \/ LoopRaises(t, "mute_expiry_task")
          \/ \E c \in Chats : BanScanStart(t, c)
          \/ BanScanFetch(t)
          \/ BanScanCAS(t)
          \/ BanScanUnban(t)
          \/ BanScanNotify(t)
          \/ BanScanDm(t)
          \/ LoopGather(t, "process_chat_bans")
          \/ LoopRaises(t, "ban_expiry_task")
          \/ LoopWake(t)
    \/ MuteCommandNext
    \/ \E t \in Tasks :
          \/ \E c \in Chats, u \in Subjects, d \in Durations :
                BanCommandStart(t, c, u, now + d)
          \/ BanCommandBan(t)
          \/ BanCommandAdd(t)

SpecPace == Init /\ [][NextPace]_vars

\* the two expiry loops with /mute and /ban, stop and start
NextStop ==
    \/ Tick
    \/ MuteScanNext
    \/ BanScanNext
    \/ MuteCommandNext
    \/ \E t \in Tasks :
          \/ \E c \in Chats, u \in Subjects, d \in Durations :
                BanCommandStart(t, c, u, now + d)
          \/ BanCommandBan(t)
          \/ BanCommandAdd(t)
    \/ Shutdown
    \/ Exit
    \/ Start

SpecStop == Init /\ [][NextStop]_vars

\* the calls that end a vote
NextFinalize ==
    \/ VoteTick
    \/ \E c \in Chats, u \in Subjects : StoreCreateVote(c, u)
    \/ FinishVoteNext
    \/ CleanupNext

SpecFinalize == Init /\ [][NextFinalize]_vars

----------------------------------------------------------------------------
(* Properties of the reconciler and the punishment store *)

Ids == 1..Len(punishments)

ScanOps == {"process_chat_mutes", "process_chat_bans"}

\* a scan that won the CAS on id and has the given call still ahead
OwnerAt(id, pcs) ==
    \E t \in Tasks : /\ task[t].op \in ScanOps
                     /\ task[t].pc \in pcs
                     /\ Cur(t) = id
                     /\ task[t].won

ActiveIn(ps, c, u, k) ==
    {id \in 1..Len(ps) : /\ ps[id].active
                         /\ ps[id].chat = c
                         /\ ps[id].user = u
                         /\ ps[id].kind = k}

ActiveOf(c, u, k) == ActiveIn(punishments, c, u, k)

\* C1: of the scans that race on one expired punishment at most one wins the
\* CAS; the winner issues the unmute/unban call and the release notice once
\* each, and a scan whose CAS returned False issues neither.
C1_AtMostOnceReversal ==
    \A id \in Ids :
        /\ scanWins[id] <= 1
        /\ lostActs[id] = 0
        /\ IF scanWins[id] = 0 \/ OwnerAt(id, {"unrestrict", "unban"})
           THEN scanReversals[id] = 0 /\ scanNotices[id] = 0
           ELSE IF OwnerAt(id, {"notify"})
           THEN scanReversals[id] = 1 /\ scanNotices[id] = 0
           ELSE scanReversals[id] = 1 /\ scanNotices[id] = 1

\* two scans raced on one punishment: one won and has finished the reversal,
\* the other lost
C1_Witness ==
    \E id \in Ids : /\ scanWins[id] = 1
                    /\ scanLosses[id] >= 1
                    /\ scanReversals[id] = 1
                    /\ scanNotices[id] = 1

\* C2: a scan never calls the CAS, the unmute/unban or the release notice
\* for a punishment whose expiry is later than the current time.
C2_NoPrematureReversal ==
    /\ \A id \in Ids :
          (scanWins[id] + scanLosses[id] + scanReversals[id] + scanNotices[id] > 0)
              => (punishments[id].expiry # NoExpiry /\ punishments[id].expiry <= now)
    /\ \A t \in Tasks :
          (task[t].op \in ScanOps /\ task[t].pc \in {"cas", "unrestrict", "unban", "notify"})
              => (punishments[Cur(t)].expiry # NoExpiry /\ punishments[Cur(t)].expiry <= now)

\* a scan has passed over a listed punishment that is permanent or not yet
\* due, has left it active, and is at the CAS of a later one
C2_Witness ==
    \E t \in Tasks :
        /\ task[t].op \in ScanOps
        /\ task[t].pc = "cas"
        /\ \E k \in 1..(task[t].i - 1) :
              LET id == task[t].snap[k]
              IN /\ punishments[id].active
                 /\ punishments[id].expiry = NoExpiry \/ punishments[id].expiry > now
                 /\ scanWins[id] + scanLosses[id] = 0

\* C5: get_active_punishments(chat, "mute") never holds two active mutes of
\* the same member.
C5_OneActiveMute ==
    \A c \in Chats, u \in Subjects : Cardinality(ActiveOf(c, u, "mute")) <= 1

\* C6: there is at most one active ban per chat and member.
C6_OneActiveBan ==
    \A c \in Chats, u \in Subjects : Cardinality(ActiveOf(c, u, "ban")) <= 1

MuteOverdue(id) ==
    /\ id \in Ids
    /\ punishments[id].kind = "mute"
    /\ punishments[id].active
    /\ punishments[id].expiry # NoExpiry
    /\ punishments[id].expiry <= now

MuteInactive(id) == id \in Ids /\ ~punishments[id].active

NoticeFailed(r) == r \in {"gone", "error"}

\* the index the loop reaches after position i of the scan of task t
ScanNextCandidate(t) ==
    IF task[t].op = "process_chat_mutes"
    THEN NextMuteCandidate(punishments, recently, task[t].snap, task[t].i + 1,
                           task[t].tref, now)
    ELSE NextBanCandidate(punishments, task[t].snap, task[t].i + 1, now)

\* C15: a scan whose send_message failed keeps the deactivation it won (the
\* record stays inactive and no record changes), goes on to the next
\* candidate of its list, and when none is left returns the number of
\* punishments it fetched, which is above zero, to the pacing of the loop.
C15_NotificationNonFatal ==
    /\ [][\A t \in Tasks :
            (/\ task[t].op \in ScanOps
             /\ task[t].pc \in {"notify", "dm"}
             /\ task'[t] # task[t]
             /\ NoticeFailed(task'[t].sent))
                => /\ punishments' = punishments
                   /\ ~punishments'[Cur(t)].active
                   /\ task'[t].op = task[t].op
                   /\ task'[t].snap = task[t].snap
                   /\ \/ task[t].pc = "notify" /\ task'[t].pc = "dm"
                      \/ /\ ScanNextCandidate(t) <= Len(task[t].snap)
                         /\ task'[t].pc = "cas"
                         /\ task'[t].i = ScanNextCandidate(t)
                      \/ /\ ScanNextCandidate(t) > Len(task[t].snap)
                         /\ task'[t].pc = "return"
                         /\ task'[t].count = Len(task[t].snap)
                         /\ task'[t].count > 0]_vars
    /\ [](\A t \in Tasks :
            (task[t].op \in ScanOps /\ task[t].pc = "return" /\ NoticeFailed(task[t].sent))
                => task[t].count = Len(task[t].snap) /\ task[t].count > 0)

\* a scan goes on to a second expired mute after the notice for the first
\* failed, and a scan returns its count after a failed notice
C15_Witness ==
    \E t \in Tasks :
        /\ task[t].op = "process_chat_mutes"
        /\ task[t].pc = "return"
        /\ NoticeFailed(task[t].sent)
        /\ Len(task[t].snap) = 2
        /\ task[t].count = 2
        /\ \A k \in 1..2 : /\ ~punishments[task[t].snap[k]].active
                            /\ scanWins[task[t].snap[k]] = 1
                            /\ scanNotices[task[t].snap[k]] = 1

----------------------------------------------------------------------------
(* Properties of the vote engine *)

FinishPcs == {"fin_get", "fin_finish", "fin_restrict", "fin_add"}

\* C3: no vote causes two mute applications or two punishment records.
C3_ResolvedAtMostOnce ==
    \A v \in VoteIds : voteMutes[v] <= 1 /\ voteRecords[v] <= 1

\* C4: active_votes never holds two rows of the same chat.
C4_OneLiveVotePerChat ==
    \A c \in Chats : Cardinality({v \in active_votes : votes[v].chat = c}) <= 1

\* C7: when finish_votemute records the mute of a vote, the target is left
\* with at most one active mute in the chat.
C7_VoteMuteOverwrites ==
    [][\A t \in Tasks :
          (InFinish(t, "fin_add") /\ task'[t].pc # "fin_add")
              => \A c \in Chats, u \in Subjects :
                    Cardinality(ActiveIn(punishments', c, u, "mute")) <= 1]_vars

\* C9: a vote handler that resolves a vote applies the mute iff yes > no held
\* at the moment the accepted ballots first reached the threshold.
C9_EarlyMajorityOutcome ==
    \A t \in Tasks :
        (task[t].op = "vote_callback_handler" /\ task[t].pc \in FinishPcs)
            => ((task[t].result = "success") <=> (atThreshold[task[t].vote] = "applied"))

\* C10: a vote that is still live when its window has ended, and whose
\* ballots all date from before the end, is resolved by the majority of its
\* tally: applied iff yes > no.
C10_DeadlineMajority ==
    [][\A v \in active_votes \ active_votes' :
          (/\ now >= votes[v].expires_at
           /\ \A r \in vote_results :
                 r.vote_id = v => r.last_change_at < votes[v].expires_at)
              => \E h \in vote_history' :
                    /\ h.vote_id = v
                    /\ (h.result = "success") <=>
                          (GetVoteResults(vote_results, v).yes
                              > GetVoteResults(vote_results, v).no)]_vars

----------------------------------------------------------------------------
(* Properties of VoteMuteDatabase under concurrent calls *)

\* C11: add_vote changes the stored ballot of a member only when the
\* member's last change is at least BallotCooldown old; a second change
\* inside the window leaves the choice and last_change_at as they are.
C11_BallotCooldown ==
    [][\A t \in Tasks :
          (At(t, "add_vote", "write") /\ task'[t] # task[t] /\ vote_results' # vote_results)
              => \A r \in BallotRows(vote_results, task[t].vote, task[t].user) :
                    now - r.last_change_at >= BallotCooldown]_vars

\* C16: whatever the interleaving of finish_vote calls and
\* cleanup_expired_votes, vote_history holds at most one row per vote id.
C16_OneHistoryRow ==
    \A v \in VoteIds : Cardinality({h \in vote_history : h.vote_id = v}) <= 1

----------------------------------------------------------------------------
(* Properties of the process: stop and start *)

TimerPending(v) == timers[v] # NoTs

\* C17: once the process is stopping, no scan of a scheduler loop is in
\* flight and none starts, and no vote timer is pending or running.
C17_StopCancels ==
    phase # "running" =>
        /\ \A t \in Tasks : task[t].op \notin LoopOps \cup {"votemute_timer"}
        /\ \A v \in VoteIds : ~TimerPending(v)

\* C18: when the process has started again, every live vote has its
\* deadline timer pending.
C18_TimersRearmed ==
    [][(phase = "down" /\ phase' = "running")
          => \A v \in active_votes' : TimerPending(v)']_vars

ReversalAhead == {"unrestrict", "unban"}

\* C19: a scan attempts the unmute/unban of a punishment only after its own
\* deactivate_punishment call has returned True, so the record is inactive
\* by then; and once the scan that won is past that call, or is gone because
\* it was cancelled, no scan attempts the reversal of that punishment again,
\* whether the call succeeded or not.
C19_CASBeforeSideEffect ==
    /\ [][\A id \in Ids :
            scanReversals'[id] > scanReversals[id]
                => /\ scanWins[id] = 1
                   /\ ~punishments[id].active
                   /\ OwnerAt(id, ReversalAhead)]_vars
    /\ [](\A id \in Ids : scanReversals[id] <= scanWins[id] /\ scanWins[id] <= 1)
    /\ [][\A id \in Ids :
            (scanWins[id] = 1 /\ ~OwnerAt(id, ReversalAhead))
                => /\ scanReversals'[id] = scanReversals[id]
                   /\ scanWins'[id] = 1
                   /\ ~punishments'[id].active]_vars

\* the scan that won the CAS of a mute was cancelled before its platform
\* call; after the restart a scan of the same chat has fetched the active
\* mutes, which no longer hold that one, and is at the CAS of a newer mute
C19_Witness ==
    \E id \in Ids, t \in Tasks :
        /\ phase = "running"
        /\ punishments[id].kind = "mute"
        /\ scanWins[id] = 1
        /\ scanReversals[id] = 0
        /\ ~punishments[id].active
        /\ ~OwnerAt(id, ReversalAhead)
        /\ <<punishments[id].chat, punishments[id].user>> \in restricted
        /\ task[t].op = "process_chat_mutes"
        /\ task[t].pc = "cas"
        /\ task[t].chat = punishments[id].chat
        /\ \A k \in 1..Len(task[t].snap) : task[t].snap[k] # id

LiftOps == {"unmute_command", "unban_command"}

\* C20: when /unmute or /unban has made its platform call and holds a
\* punishment from its own read of the active ones, no scan has made, or
\* has won the right to make, the platform call for that punishment.
C20_OneReverser ==
    \A id \in Ids, t \in Tasks :
        (task[t].op \in LiftOps /\ task[t].pc = "deact" /\ Cur(t) = id)
            => scanReversals[id] = 0 /\ ~OwnerAt(id, ReversalAhead)

----------------------------------------------------------------------------
(* Properties of the loops: cache, isolation, pacing *)

\* the positions of its list a mute scan passes over in the step it takes
PassedOver(t) ==
    LET from == IF task[t].pc = "fetch" THEN 1 ELSE task[t].i + 1
        upto == IF task'[t].pc = "cas" THEN task'[t].i - 1 ELSE Len(task'[t].snap)
    IN from..upto

ScanStepFailed(t) ==
    /\ task[t].op \in ScanOps
    /\ task'[t] # task[t]
    /\ \/ task[t].pc = "member" /\ task'[t].pc = "return"
       \/ task[t].pc = "fetch" /\ task'[t].pc = "return" /\ task'[t].snap = <<>>
       \/ task[t].pc = "cas" /\ punishments' = punishments /\ punishments[Cur(t)].active
       \/ task[t].pc = "unrestrict" /\ restricted' = restricted
       \/ task[t].pc = "unban" /\ banned' = banned
       \/ task[t].pc = "notify" /\ NoticeFailed(task'[t].sent)

GoneAt(t, pcs) ==
    /\ task[t].op \in ScanOps
    /\ task[t].pc \in pcs
    /\ task'[t] # task[t]
    /\ IF task[t].pc = "notify" THEN task'[t].sent = "gone" ELSE task'[t].call = "gone"

GroupCalls == {"member", "unrestrict", "unban", "notify"}

LoopTasks == {"mute_expiry_task", "ban_expiry_task"}

----------------------------------------------------------------------------
(* Properties of the broadcast and of the limiter *)

\* send_to_chat has returned for chat c
Finished(c) == c < bcast.i \/ (c = bcast.i /\ bcast.pc \in {"pause", "done"})

LastAttempt(c) == bcast.log[c][Len(bcast.log[c])]

Holders == {w \in Workers : limiter.worker[w] = "holding"}

\* send_to_chat is inside "async with semaphore"
InSendToChat == bcast.pc \in {"send", "backoff"}

\* C26: the coroutines inside "async with chat_semaphore" are never more than
\* the limit and the coroutines inside the semaphore of the broadcast never
\* more than 5; the permits that are free plus those that are held are the
\* limit at all times, after a return and after a cancellation alike.
C26_BoundedConcurrency ==
    /\ Cardinality(Holders) <= MaxConcurrentChats
    /\ limiter.value = MaxConcurrentChats - Cardinality(Holders)
    /\ (IF InSendToChat THEN 1 ELSE 0) <= BroadcastLimit
    /\ bcast.permits = BroadcastLimit - (IF InSendToChat THEN 1 ELSE 0)

\* the limit is reached while a coroutine waits, after a holder was
\* cancelled, and the broadcast is inside its semaphore
C26_Witness ==
    /\ Cardinality(Holders) = MaxConcurrentChats
    /\ \E w \in Workers : limiter.worker[w] = "waiting"
    /\ limiter.cancelled
    /\ bcast.pc = "backoff"

----------------------------------------------------------------------------
(* Properties of the vote store: cooldown, ballots, history *)

\* create_vote: created_at is the time of the INSERT, expires_at is vote_duration later
CreatedAt(v) == votes[v].expires_at - VoteWindow

\* C27: two votes of the same chat are created at least 180 seconds apart.
C27_CreationCooldown ==
    \A v \in 1..Len(votes), w \in 1..Len(votes) :
        (v < w /\ votes[v].chat = votes[w].chat)
            => CreatedAt(w) - CreatedAt(v) >= CreateCooldown

\* the members with a row in vote_results for vote v
Balloted(rs, v) == {u \in Voters : BallotRows(rs, v, u) # {}}

Tally(rs, v) == GetVoteResults(rs, v).yes + GetVoteResults(rs, v).no

\* C28: vote_results never holds two rows of one vote and member, so yes + no
\* of get_vote_results is the number of members with a ballot; an add_vote
\* that writes over a member's row leaves yes + no as it was and, when the
\* choice differs, moves one unit from the old choice to the new one.
C28_OneBallotPerVoter ==
    /\ [](\A v \in VoteIds :
            /\ \A u \in Voters : Cardinality(BallotRows(vote_results, v, u)) <= 1
            /\ Tally(vote_results, v) = Cardinality(Balloted(vote_results, v)))
    /\ [][\A t \in Tasks :
            (At(t, "add_vote", "write") /\ task[t].existing /\ task'[t] # task[t])
                => LET v == task[t].vote
                       new == task[t].ballot
                       before == GetVoteResults(vote_results, v)
                       after == GetVoteResults(vote_results', v)
                   IN /\ after.yes + after.no = before.yes + before.no
                      /\ \A r \in BallotRows(vote_results, v, task[t].user) :
                            IF r.vote_type = new THEN after = before
                            ELSE /\ after[new] = before[new] + 1
                                 /\ after[r.vote_type] = before[r.vote_type] - 1]_vars

\* a member's row is there, with another member's, and two add_vote calls of
\* that member are about to write: one an INSERT that read no row, one an
\* UPDATE to the other choice
C28_Witness ==
    \E t \in Tasks, s \in Tasks, r \in vote_results, q \in vote_results :
        /\ At(t, "add_vote", "write") /\ ~task[t].existing
        /\ At(s, "add_vote", "write") /\ task[s].existing
        /\ r.vote_id = task[t].vote /\ r.user_id = task[t].user
        /\ task[s].vote = r.vote_id /\ task[s].user = r.user_id
        /\ task[s].ballot # r.vote_type
        /\ q.vote_id = r.vote_id /\ q.user_id # r.user_id

\* C29: every vote_history row carries the chat, target, creator, mute
\* duration, threshold, window and created-at of the vote it was written for,
\* and that vote and its ballots are no longer in the live tables.
C29_HistoryFidelity ==
    \A h \in vote_history :
        /\ h.chat_id = votes[h.vote_id].chat
        /\ h.target_user_id = votes[h.vote_id].target
        /\ h.creator_id = votes[h.vote_id].creator
        /\ h.mute_duration = votes[h.vote_id].mute_duration
        /\ h.required_votes = votes[h.vote_id].required_votes
        /\ h.vote_duration = VoteDuration
        /\ h.created_at = CreatedAt(h.vote_id)
        /\ h.vote_id \notin active_votes
        /\ \A r \in vote_results : r.vote_id # h.vote_id

----------------------------------------------------------------------------
(* The permission gate of the mute loop *)

\* the mutes of chat c that are due
DueMutes(c) ==
    {id \in 1..Len(punishments) :
        /\ punishments[id].kind = "mute" /\ punishments[id].chat = c
        /\ punishments[id].active /\ punishments[id].expiry <= now}

\* C30: a mute scan that finds the bot to be an ordinary member of the chat
\* returns 0 at once: it reads and deactivates no punishment, lifts no
\* restriction and sends no notice.
C30_PermissionGate ==
    /\ [](\A t \in Tasks :
            (task[t].op = "process_chat_mutes" /\ task[t].status = "member")
                => /\ task[t].pc = "return"
                   /\ task[t].count = 0
                   /\ task[t].snap = <<>>
                   /\ task[t].sent = "none")
    /\ [][\A t \in Tasks :
            (/\ task'[t] # task[t]
             /\ \/ task[t].op = "process_chat_mutes" /\ task[t].status = "member"
                \/ task'[t].op = "process_chat_mutes" /\ task'[t].status = "member")
                => /\ punishments' = punishments
                   /\ restricted' = restricted
                   /\ chatActive' = chatActive
                   /\ recently' = recently
                   /\ histVars' = histVars]_vars

\* a scan has returned from a chat where the bot is a member only, while a
\* mute of that chat is due
C30_Witness ==
    \E t \in Tasks :
        /\ task[t].op = "process_chat_mutes"
        /\ task[t].status = "member"
        /\ task[t].pc = "return"
        /\ DueMutes(task[t].chat) # {}

----------------------------------------------------------------------------
(* Properties of the reconciler: permanent punishments, re-issue, notices *)

Permanent(ps, id) == ps[id].active /\ ps[id].expiry = NoExpiry

\* C31: no step of a scan deactivates an active punishment without expiry,
\* issues the unmute or unban call for it or announces it; a scan that reads the chat has
\* it in its snapshot, and the count it returns is the size of the snapshot.
C31_PermanentUntouched ==
    /\ [][\A id \in 1..Len(punishments) :
            Permanent(punishments, id)
                => /\ Permanent(punishments', id)
                   /\ scanWins'[id] = scanWins[id]
                   /\ scanLosses'[id] = scanLosses[id]
                   /\ scanReversals'[id] = scanReversals[id]
                   /\ scanNotices'[id] = scanNotices[id]]_vars
    /\ [][\A t \in Tasks :
            (task[t].op \in ScanOps /\ task[t].pc = "fetch" /\ task'[t] # task[t])
                => /\ \A id \in 1..Len(punishments) :
                          (/\ Permanent(punishments, id)
                           /\ punishments[id].chat = task[t].chat
                           /\ (punishments[id].kind = "mute") = (task[t].op = "process_chat_mutes"))
                              => \E k \in 1..Len(task'[t].snap) : task'[t].snap[k] = id
                   /\ task'[t].pc = "return" => task'[t].count = Len(task'[t].snap)]_vars
    /\ [](\A t \in Tasks :
            (task[t].op \in ScanOps /\ task[t].pc = "return" /\ task[t].snap # <<>>)
                => task[t].count = Len(task[t].snap))

\* a mute scan has returned 2 after it released a mute that was due and
\* passed over a permanent one, which is still active
C31_Witness ==
    \E t \in Tasks :
        /\ task[t].op = "process_chat_mutes"
        /\ task[t].pc = "return"
        /\ task[t].count = 2
        /\ \E k \in 1..2, j \in 1..2 :
              /\ Permanent(punishments, task[t].snap[k])
              /\ punishments[task[t].snap[k]].kind = "mute"
              /\ scanWins[task[t].snap[j]] = 1
              /\ scanReversals[task[t].snap[j]] = 1

\* C32: a member with an active mute record that has not expired is
\* restricted on the platform.
C32_ReissueKeepsRestriction ==
    \A id \in 1..Len(punishments) :
        (/\ punishments[id].kind = "mute"
         /\ punishments[id].active
         /\ punishments[id].expiry > now)
            => <<punishments[id].chat, punishments[id].user>> \in restricted

----------------------------------------------------------------------------
(* Properties of the vote engine: outcome, ballots and the deadline *)

\* C33: every vote_history row with result "success" has votes_yes >
\* votes_no, and every row written with a majority reason has
\* votes_yes + votes_no >= required_votes.
C33_OutcomeAgreesWithTally ==
    \A h \in vote_history :
        /\ h.result = "success" => h.votes_yes > h.votes_no
        /\ h.reason \in {"majority_for", "majority_against"}
              => h.votes_yes + h.votes_no >= votes[h.vote_id].required_votes

\* C34: every row of vote_results belongs to a vote that is in active_votes.
C34_NoBallotOutlivesVote ==
    \A r \in vote_results : r.vote_id \in active_votes

----------------------------------------------------------------------------
(* Accounting of the broadcast *)

\* the sends to chat c that succeeded
Delivered(c) == {k \in 1..Len(bcast.log[c]) : bcast.log[c][k] = "ok"}

\* C37: success_count + error_count is the number of chats send_to_chat has
\* returned for, so each chat is counted once; no chat has two sends that
\* succeeded; when the broadcast is over, every chat has been counted and the
\* two counters add up to the number of target chats.
C37_BroadcastAccounting ==
    /\ bcast.success_count + bcast.error_count
          = Cardinality({c \in Targets : Finished(c)})
    /\ \A c \in Targets : Cardinality(Delivered(c)) <= 1
    /\ bcast.success_count = Cardinality({c \in Targets : Delivered(c) # {}})
    /\ bcast.pc = "done"
          => /\ \A c \in Targets : Finished(c)
             /\ bcast.success_count + bcast.error_count = NTargets

\* a broadcast is over with two chats sent, one of them at the third
\* attempt, and one chat failed
C37_Witness ==
    /\ bcast.pc = "done"
    /\ bcast.success_count = 2
    /\ bcast.error_count = 1
    /\ \E c \in Targets : bcast.log[c] = <<"throttled", "throttled", "ok">>

----------------------------------------------------------------------------
(* Mute records and the restrict call before them *)

\* the coroutine is at the restrict_chat_member of mute_command or of
\* finish_votemute
AtMuteRestrict(t) ==
    \/ At(t, "mute_command", "restrict")
    \/ InFinish(t, "fin_restrict")

\* the coroutine is in the part of the try block that follows the restrict
\* call: the overwrite of the old mutes and add_punishment
AfterMuteRestrict(t) ==
    \/ task[t].op = "mute_command" /\ task[t].pc \in {"fetch", "deact", "add"}
    \/ InFinish(t, "fin_add")

\* the member the coroutine mutes
MuteSubject(t) ==
    IF task[t].op = "mute_command" THEN <<task[t].chat, task[t].user>>
    ELSE <<task[t].chat, votes[task[t].vote].target>>

\* what a step does around the restrict call of the two handlers
MuteRecordStep ==
    /\ \A t \in Tasks :
          (AfterMuteRestrict(t)' /\ ~AfterMuteRestrict(t))
              => (AtMuteRestrict(t) /\ MuteSubject(t) \in restricted')
    /\ \A t \in Tasks :
          (AtMuteRestrict(t) /\ task'[t] # task[t] /\ ~AfterMuteRestrict(t)')
              => (/\ task'[t] = IdleTask
                  /\ punishments' = punishments
                  /\ restricted' = restricted)
    /\ (punishments' # punishments)
              => (\E t \in Tasks : AfterMuteRestrict(t) /\ task'[t] # task[t])

\* C38: mute_command and finish_votemute come to their store calls only from
\* a restrict_chat_member that went through, which has just restricted the
\* member; after a restrict call that failed the coroutine ends and the
\* store and the platform are as before; the store changes only by a
\* coroutine past its restrict call; a vote has no more mute records than
\* mutes applied for it.
C38_RecordAfterRestrict ==
    /\ [](\A v \in VoteIds : voteRecords[v] <= voteMutes[v])
    /\ [][MuteRecordStep]_vars

\* a vote was resolved as success, the restrict call of finish_votemute
\* failed and the call has ended: no mute applied, no record, the target
\* can post
C38_Witness ==
    \E v \in VoteIds :
        /\ \E h \in vote_history : h.vote_id = v /\ h.result = "success"
        /\ voteMutes[v] = 0
        /\ voteRecords[v] = 0
        /\ \A t \in Tasks : Idle(t)
        /\ punishments = <<>>
        /\ restricted = {}

----------------------------------------------------------------------------
(* The release notice and the reversal before it *)

\* the expiry loop is at the send_message that announces the release
AtReleaseNotice(t) ==
    /\ task[t].op \in {"process_chat_mutes", "process_chat_bans"}
    /\ task[t].pc = "notify"

\* C39: a release notice goes out to the chat only when the restrict or
\* unban call made for that punishment just before it went through.
C39_NoticeOnlyAfterReversal ==
    [][\A t \in Tasks :
          (AtReleaseNotice(t) /\ task'[t] # task[t] /\ task'[t].sent = "ok")
              => task[t].call = "ok"]_vars

====
